---------------------------- MODULE Spec2Model ----------------------------
(***************************************************************************)
(* Hexatic-Phase-Analysis: connectivity clustering (Codes/clusters.c),     *)
(* periodic helpers (Codes/utils.c), the Delaunay neighbor builder         *)
(* (Codes/delaunay.c) and the correlation accumulators (Codes/g6accum.c,   *)
(* Translational_order/graccum.c, Translational_order/gtaccum.c).          *)
(*                                                                         *)
(* Lengths are exact numbers on an integer grid (one grid unit is whatever *)
(* length unit the caller uses; the code is scale free).  C arrays are     *)
(* functions on 0..n-1, so indices are the source's indices.  Quotients of *)
(* doubles are exact rationals <<num, den>>.                               *)
(***************************************************************************)
EXTENDS Integers, Sequences, FiniteSets, TLC

VARIABLES
    \* run parameters shared by every stage
    use_pbc, box_x, box_y,
    \* clustering stage (find_clusters_from_vec2array, make_clusters_from_ids)
    pos, lbond, cl_pc, cluster_id, nclusters, clusters,
    \* the union-find structure on its own, and the last call made on it
    uf_st, uf_op,
    \* neighbor builder (triangulate_get_neighbors): its input points, its
    \* position, Triangle's edge count, the scan index e, the neighbor arrays
    \* being filled, the returned pointer and *out_M
    coms, nb_pc, tri_nedges, tri_e, neighbors, nb_ret, out_M,
    \* correlation accumulators: which accumulation loop the run is in, the
    \* bin width and lattice spacing of the run, the three accumulators, and
    \* the snapshots handed to accumulate so far (history)
    pass, dr, a_lattice, g6A, grA, gtA, hist,
    \* first-peak estimate: position of the call and the value returned
    pk_pc, peak_a,
    \* a driver run: which driver, its position, the selected files, the loop
    \* index, the messages written, the exit status, the number of snapshot
    \* reads and the output files written
    drv, drv_pc, paths, ip, log, status, files_read, outputs,
    \* the translational driver's A_LATTICE_OVERRIDE argument, and whether
    \* its g(r) accumulator exists (created and not yet freed)
    a_override, Agr_live,
    \* compute_cluster_coms: its arguments, the position of the call, its result
    cm_pos, cm_clusters, cm_pc, cm_ret

runVars == <<use_pbc, box_x, box_y>>
clVars == <<pos, lbond, cl_pc, cluster_id, nclusters, clusters, uf_st, uf_op>>
nbVars == <<coms, nb_pc, tri_nedges, tri_e, neighbors, nb_ret, out_M>>
accVars == <<pass, dr, a_lattice, g6A, grA, gtA, hist>>
pkVars == <<pk_pc, peak_a>>
drVars == <<drv, drv_pc, paths, ip, log, status, files_read, outputs, a_override, Agr_live>>
cmVars == <<cm_pos, cm_clusters, cm_pc, cm_ret>>
vars == <<runVars, clVars, nbVars, accVars, pkVars, drVars, cmVars>>

(***************************************************************************)
(* Bounds and input domains                                                *)
(***************************************************************************)
Idx(n) == 0..(n - 1)
ALen(a) == Cardinality(DOMAIN a)

MaxN == 3
MaxM == 3
MaxEdges == 3
MaxFrames == 2
MaxBins == 5

Xs == {1, 3, 5}
Ys == {0, 3}
BoxLens == {0, 4, 6, 8}
Boxes == {<<0, 4>>, <<4, 0>>, <<4, 4>>, <<8, 4>>, <<6, 6>>}
Pts == [x : Xs, y : Ys]
Lbonds == {0, 1, 3}
ComPts == {[x |-> 0, y |-> 0], [x |-> 3, y |-> 0], [x |-> 1, y |-> 3]}
ComArrays == UNION {[Idx(n) -> ComPts] : n \in 0..MaxM}
NbBoxLens == {0, 4}

PosArrays == UNION {[Idx(n) -> Pts] : n \in 0..MaxN}
EmptyArr == [i \in {} |-> 0]

Abs(v) == IF v < 0 THEN -v ELSE v
Min2(a, b) == IF a <= b THEN a ELSE b

(***************************************************************************)
(* utils.c                                                                 *)
(***************************************************************************)
\* C round(): nearest integer, halves away from zero; q = d / L with L > 0.
Round(d, L) ==
    IF d >= 0 THEN (2 * d + L) \div (2 * L)
              ELSE -((2 * (-d) + L) \div (2 * L))

\* truncation toward zero in place of round()
mic_delta_trunc(d, L) ==
    IF L <= 0 THEN d
    ELSE d - L * (IF d >= 0 THEN d \div L ELSE -((-d) \div L))
mic_delta(d, L) == IF L <= 0 THEN d ELSE d - L * Round(d, L)

(***************************************************************************)
(* clusters.c: union-find                                                  *)
(***************************************************************************)
uf_init(n) == [parent |-> [i \in Idx(n) |-> i], rank |-> [i \in Idx(n) |-> 0]]

RECURSIVE uf_find(_, _)
uf_find(parent, r) == IF parent[r] = r THEN r ELSE uf_find(parent, parent[r])

RECURSIVE uf_compress(_, _, _)
uf_compress(parent, i, r) ==
    IF i = r THEN parent
    ELSE uf_compress([parent EXCEPT ![i] = r], parent[i], r)

\* uf_root: the root of i, and the structure after path compression
uf_root(uf, i) ==
    LET r == uf_find(uf.parent, i)
    IN  [r |-> r, uf |-> [uf EXCEPT !.parent = uf_compress(uf.parent, i, r)]]

\* a union that re-parents a itself instead of its root
uf_union_direct(uf, a, b) ==
    LET A  == uf_root(uf, a)
        B  == uf_root(A.uf, b)
        u  == B.uf
    IN  IF A.r = B.r THEN u ELSE [u EXCEPT !.parent[a] = B.r]

uf_union(uf, a, b) ==
    LET A  == uf_root(uf, a)
        B  == uf_root(A.uf, b)
        ra == A.r
        rb == B.r
        u  == B.uf
    IN  IF ra = rb THEN u
        ELSE IF u.rank[ra] < u.rank[rb] THEN [u EXCEPT !.parent[ra] = rb]
        ELSE IF u.rank[ra] > u.rank[rb] THEN [u EXCEPT !.parent[rb] = ra]
        ELSE [u EXCEPT !.parent[rb] = ra, !.rank[ra] = u.rank[ra] + 1]

\* no call made yet
NoUfCall == [op |-> "none", a |-> 0, b |-> 0, r |-> 0]

(***************************************************************************)
(* clusters.c: find_clusters_from_vec2array                                *)
(***************************************************************************)
\* squared pair distance as the pair scan computes it (lines 109-115)
PairD2(p, i, j, pbc, bx, by) ==
    LET dx0 == p[j].x - p[i].x
        dy0 == p[j].y - p[i].y
        dx  == IF pbc THEN mic_delta(dx0, bx) ELSE dx0
        dy  == IF pbc THEN mic_delta(dy0, by) ELSE dy0
    IN  dx * dx + dy * dy

\* the bond test of line 116
Bonded_strict(d2, lb2) == d2 < lb2
Bonded(d2, lb2) == d2 <= lb2

\* inner loop bound of line 108: j runs while j < InnerEnd(N)
InnerEnd_short(N) == N - 1
InnerEnd(N) == N

\* the O(N^2) pair scan of lines 107-120, from pair (i, j) on
RECURSIVE ScanPairs(_, _, _, _, _, _, _, _)
ScanPairs(uf, p, lb2, pbc, bx, by, i, j) ==
    LET N == ALen(p)
    IN  IF i >= N - 1 THEN uf
        ELSE IF j >= InnerEnd(N) THEN ScanPairs(uf, p, lb2, pbc, bx, by, i + 1, i + 2)
        ELSE ScanPairs(IF Bonded(PairD2(p, i, j, pbc, bx, by), lb2)
                          THEN uf_union(uf, i, j) ELSE uf,
                       p, lb2, pbc, bx, by, i, j + 1)

\* lines 129-131: root[i] = uf_root(&uf, i) for i = 0..N-1 (compressing as it goes)
RECURSIVE RootScan(_, _, _, _)
RootScan(uf, root, i, N) ==
    IF i >= N THEN root
    ELSE LET R == uf_root(uf, i)
         IN  RootScan(R.uf, [root EXCEPT ![i] = R.r], i + 1, N)

\* line 149: the id given to a root seen for the first time
NewId_rootindex(r, n) == r
NewId(r, n) == n

\* lines 142-150: map distinct roots to compact ids in order of first occurrence
RECURSIVE CompactIds(_, _, _, _, _)
CompactIds(root, map, n, i, N) ==
    IF i >= N THEN [map |-> map, nclusters |-> n]
    ELSE LET r == root[i]
         IN  IF map[r] = -1
             THEN CompactIds(root, [map EXCEPT ![r] = NewId(r, n)], n + 1, i + 1, N)
             ELSE CompactIds(root, map, n, i + 1, N)

NullIds == [ptr |-> FALSE, data |-> EmptyArr, nclusters |-> 0, err |-> ""]

find_clusters_from_vec2array(p, lb, pbc, bx, by) ==
    LET N == ALen(p)
    IN  IF N <= 0 THEN NullIds
        ELSE IF pbc /\ (bx <= 0 \/ by <= 0)
        THEN [NullIds EXCEPT !.err = "find_clusters: use_pbc true but box_x/box_y not positive"]
        ELSE LET uf   == ScanPairs(uf_init(N), p, lb * lb, pbc, bx, by, 0, 1)
                 root == RootScan(uf, [i \in Idx(N) |-> 0], 0, N)
                 C    == CompactIds(root, [i \in Idx(N) |-> -1], 0, 0, N)
             IN  [ptr |-> TRUE,
                  data |-> [i \in Idx(N) |-> C.map[root[i]]],
                  nclusters |-> C.nclusters,
                  err |-> ""]

(***************************************************************************)
(* clusters.c: make_clusters_from_ids                                      *)
(***************************************************************************)
RECURSIVE PushMembers(_, _, _, _, _)
PushMembers(cl, cid, i, N, nc) ==
    IF i >= N THEN cl
    ELSE IF cid[i] < 0 \/ cid[i] >= nc THEN PushMembers(cl, cid, i + 1, N, nc)
    ELSE PushMembers([cl EXCEPT ![cid[i]] = Append(@, i)], cid, i + 1, N, nc)

NullClusters == [ptr |-> FALSE, data |-> EmptyArr]

make_clusters_from_ids(cid, N, nc) ==
    IF nc <= 0 THEN NullClusters
    ELSE IF ~cid.ptr \/ N <= 0 THEN NullClusters
    ELSE [ptr |-> TRUE, data |-> PushMembers([k \in Idx(nc) |-> <<>>], cid.data, 0, N, nc)]

(***************************************************************************)
(* delaunay.c: triangulate_get_neighbors.  Triangle is an external service *)
(* (its source is not part of the repository): it is given total_points    *)
(* points and answers with any list of edges between two different points, *)
(* and with none when there are fewer than three points to triangulate.    *)
(* The edge scan of lines 110-150 takes one step per edge of that list.    *)
(***************************************************************************)
NullNeighbors == [ptr |-> FALSE, data |-> EmptyArr, err |-> ""]

\* a stage that is not running in the specification at hand
ClIdle ==
    /\ pos = EmptyArr
    /\ lbond = 0
    /\ cl_pc = "idle"
    /\ cluster_id = NullIds
    /\ nclusters = 0
    /\ clusters = NullClusters
    /\ uf_st = uf_init(0)
    /\ uf_op = NoUfCall

NbIdle ==
    /\ coms = EmptyArr
    /\ nb_pc = "idle"
    /\ tri_nedges = 0
    /\ tri_e = 0
    /\ neighbors = EmptyArr
    /\ nb_ret = NullNeighbors
    /\ out_M = 0

(***************************************************************************)
(* Accumulator values.  Sums of per-snapshot means and ideal-gas counts    *)
(* are exact rationals <<numerator, denominator>> in lowest terms; areas   *)
(* and ideal counts are kept in units of pi.                               *)
(***************************************************************************)
RECURSIVE GCD(_, _)
GCD(a, b) == IF b = 0 THEN a ELSE GCD(b, a % b)

Rat(n, d) ==
    LET g == GCD(Abs(n), d)
    IN  <<n \div g, d \div g>>

RZero == Rat(0, 1)
RAdd(p, q) == Rat(p[1] * q[2] + q[1] * p[2], p[2] * q[2])
RDivInt(p, k) == Rat(p[1], p[2] * k)

\* g6accum.c lines 61-67: a new bin; r_center = (b + 0.5) * dr is kept as
\* the pair <<2b + 1, dr>>, i.e. (2b + 1) * dr / 2
FreshG6Bin(b, w) ==
    [r_center |-> <<2 * b + 1, w>>, re_sum |-> RZero, im_sum |-> RZero,
     pair_count |-> 0, sample_count |-> 0]

\* g6accum.c lines 28-42
g6accum_create(w) == [bins |-> EmptyArr, nbins |-> 0, dr |-> w]

\* graccum.c lines 60-65 and 31-46
FreshGrBin(b, w) ==
    [r_center |-> <<2 * b + 1, w>>, shell_area_sum |-> 0,
     ideal_pairs_sum |-> RZero, pair_count |-> 0]

graccum_create(w) == [bins |-> EmptyArr, nbins |-> 0, dr |-> w, nframes |-> 0]

\* gtaccum.c lines 54-58 and 24-38
FreshGtBin(b, w) == [r_center |-> <<2 * b + 1, w>>, ct_sum |-> 0, pair_count |-> 0]

gtaccum_create(w) == [bins |-> EmptyArr, nbins |-> 0, dr |-> w]

\* graccum.c line 140 and 162: the negative sentinel -1.0, written like an
\* r_center <<k, w>> = k * w / 2
NoPeak == <<-2, 1>>

\* Translational_order/main.c line 111: argv[10] absent, a_override = -1.0
NoOverride == [given |-> FALSE, val |-> -1]

\* no driver run and no centre-of-mass call in the specification at hand
DrvIdle ==
    /\ a_override = NoOverride
    /\ Agr_live = FALSE
    /\ drv = "none"
    /\ drv_pc = "idle"
    /\ paths = <<>>
    /\ ip = 0
    /\ log = <<>>
    /\ status = 0
    /\ files_read = 0
    /\ outputs = {}

CmIdle ==
    /\ cm_pos = EmptyArr
    /\ cm_clusters = EmptyArr
    /\ cm_pc = "idle"
    /\ cm_ret = [rc |-> 0, coms |-> EmptyArr, msgs |-> <<>>]

PkIdle ==
    /\ pk_pc = "idle"
    /\ peak_a = NoPeak

AccIdle ==
    /\ pass = "idle"
    /\ dr = 0
    /\ a_lattice = 0
    /\ g6A = g6accum_create(0)
    /\ grA = graccum_create(0)
    /\ gtA = gtaccum_create(0)
    /\ hist = <<>>

\* line 48-52
total_points(M, pbc) == IF pbc THEN M * 9 ELSE M

\* line 67
shifts == [s \in 0..7 |->
             CASE s = 0 -> <<-1, -1>> [] s = 1 -> <<-1, 0>> [] s = 2 -> <<-1, 1>>
               [] s = 3 -> <<0, -1>>  [] s = 4 -> <<0, 1>>
               [] s = 5 -> <<1, -1>>  [] s = 6 -> <<1, 0>>  [] s = 7 -> <<1, 1>>]

\* in.pointlist[idx] as filled by lines 59-77
pointlist(pts, idx, bx, by) ==
    LET M == ALen(pts)
    IN  IF idx < M THEN pts[idx]
        ELSE LET s == (idx - M) \div M
                 i == (idx - M) % M
             IN  [x |-> pts[i].x + shifts[s][1] * bx,
                  y |-> pts[i].y + shifts[s][2] * by]

\* lines 21-26
neighbor_has_never(nbrs, v) == FALSE
neighbor_has(nbrs, v) == \E k \in 1..Len(nbrs) : nbrs[k] = v

\* lines 145-149: add o2 to o1's list and o1 to o2's list, each if absent
AddPair(nb, o1, o2) ==
    LET n1 == IF ~neighbor_has(nb[o1], o2) THEN [nb EXCEPT ![o1] = Append(@, o2)] ELSE nb
    IN  IF ~neighbor_has(n1[o2], o1) THEN [n1 EXCEPT ![o2] = Append(@, o1)] ELSE n1

\* a scan without the displacement test
NotMinimumImage_never(pts, p1, p2, bx, by) == FALSE

\* lines 133-142: the edge's displacement in the tiled point set differs from
\* the minimum-image displacement of the two originals (eps = 1e-9 is below
\* one grid unit, so the comparison is exact on the grid)
NotMinimumImage(pts, p1, p2, bx, by) ==
    LET M  == ALen(pts)
        o1 == p1 % M
        o2 == p2 % M
        ex == pointlist(pts, p2, bx, by).x - pointlist(pts, p1, bx, by).x
        ey == pointlist(pts, p2, bx, by).y - pointlist(pts, p1, bx, by).y
        mx == mic_delta(pts[o2].x - pts[o1].x, bx)
        my == mic_delta(pts[o2].y - pts[o1].y, by)
    IN  Abs(ex - mx) > 0 \/ Abs(ey - my) > 0

\* the body of the edge loop, lines 111-149, for edge (p1, p2)
ScanOneEdge(nb, pts, p1, p2, pbc, bx, by) ==
    LET M  == ALen(pts)
        o1 == p1 % M
        o2 == p2 % M
    IN  IF pbc /\ ~(p1 < M) /\ ~(p2 < M) THEN nb
        ELSE IF o1 = o2 THEN nb
        ELSE IF pbc /\ NotMinimumImage(pts, p1, p2, bx, by) THEN nb
        ELSE AddPair(nb, o1, o2)

\* what Triangle may answer for n points: the number of edges it produced
TriangleEdgeCounts(n) == IF n < 3 THEN {0} ELSE 0..MaxEdges

InitNeighbors ==
    /\ ClIdle
    /\ PkIdle
    /\ DrvIdle
    /\ CmIdle
    /\ AccIdle
    /\ use_pbc \in BOOLEAN
    /\ box_x \in NbBoxLens
    /\ box_y \in NbBoxLens
    /\ coms \in ComArrays
    /\ nb_pc = "call"
    /\ tri_nedges = 0
    /\ tri_e = 0
    /\ neighbors = EmptyArr
    /\ nb_ret = NullNeighbors
    /\ out_M = 0

\* lines 33-100: argument checks, tiling, the call of Triangle, the
\* zero-edge exit and the allocation of the M empty neighbor arrays
TriangulateEnter ==
    /\ nb_pc = "call"
    /\ LET M == ALen(coms)
       IN  IF M <= 0
           THEN /\ nb_pc' = "done"
                /\ UNCHANGED <<tri_nedges, neighbors, nb_ret>>
           ELSE IF use_pbc /\ (box_x <= 0 \/ box_y <= 0)
           THEN /\ nb_pc' = "done"
                /\ nb_ret' = [NullNeighbors EXCEPT !.err = "triangulate: invalid box dims"]
                /\ UNCHANGED <<tri_nedges, neighbors>>
           ELSE \E n \in TriangleEdgeCounts(total_points(M, use_pbc)) :
                   /\ tri_nedges' = n
                   /\ IF n <= 0
                      THEN /\ nb_pc' = "done"
                           /\ nb_ret' = [NullNeighbors EXCEPT !.err = "triangulate: no edges produced"]
                           /\ UNCHANGED neighbors
                      ELSE /\ nb_pc' = "scan"
                           /\ neighbors' = [i \in Idx(M) |-> <<>>]
                           /\ UNCHANGED nb_ret
    /\ UNCHANGED <<runVars, pkVars, drVars, cmVars, clVars, accVars, coms, tri_e, out_M>>

\* lines 110-150: one iteration of the edge loop
ScanEdge ==
    /\ nb_pc = "scan"
    /\ tri_e < tri_nedges
    /\ \E p1, p2 \in Idx(total_points(ALen(coms), use_pbc)) :
          /\ p1 # p2
          /\ neighbors' = ScanOneEdge(neighbors, coms, p1, p2, use_pbc, box_x, box_y)
    /\ tri_e' = tri_e + 1
    /\ UNCHANGED <<runVars, pkVars, drVars, cmVars, clVars, accVars, coms, nb_pc, tri_nedges, nb_ret, out_M>>

\* lines 152-160: the loop is over, the graph is handed to the caller
TriangulateReturn ==
    /\ nb_pc = "scan"
    /\ tri_e >= tri_nedges
    /\ out_M' = ALen(coms)
    /\ nb_ret' = [ptr |-> TRUE, data |-> neighbors, err |-> ""]
    /\ nb_pc' = "done"
    /\ UNCHANGED <<runVars, pkVars, drVars, cmVars, clVars, accVars, coms, tri_nedges, tri_e, neighbors>>

NextNeighbors == TriangulateEnter \/ ScanEdge \/ TriangulateReturn

SpecNeighbors == InitNeighbors /\ [][NextNeighbors]_vars

(***************************************************************************)
(* The clustering stage as the driver runs it (Codes/main.c 196-276):      *)
(* one snapshot and one set of run parameters, clustered, then turned into *)
(* member lists.                                                           *)
(***************************************************************************)
InitClusters ==
    /\ NbIdle
    /\ PkIdle
    /\ DrvIdle
    /\ CmIdle
    /\ AccIdle
    /\ pos \in PosArrays
    /\ lbond \in Lbonds
    /\ use_pbc \in BOOLEAN
    /\ \E b \in Boxes : box_x = b[1] /\ box_y = b[2]
    /\ cl_pc = "call"
    /\ cluster_id = NullIds
    /\ nclusters = 0
    /\ clusters = NullClusters
    /\ uf_st = uf_init(0)
    /\ uf_op = NoUfCall

FindClusters ==
    /\ cl_pc = "call"
    /\ LET R == find_clusters_from_vec2array(pos, lbond, use_pbc, box_x, box_y)
       IN  /\ cluster_id' = R
           /\ nclusters' = R.nclusters
           /\ cl_pc' = IF R.ptr THEN "clustered" ELSE "skipped"
    /\ UNCHANGED <<runVars, pkVars, drVars, cmVars, nbVars, accVars, pos, lbond, clusters, uf_st, uf_op>>

MakeClusters ==
    /\ cl_pc = "clustered"
    /\ clusters' = make_clusters_from_ids(cluster_id, ALen(pos), nclusters)
    /\ cl_pc' = "done"
    /\ UNCHANGED <<runVars, pkVars, drVars, cmVars, nbVars, accVars, pos, lbond, cluster_id, nclusters, uf_st, uf_op>>

NextClusters == FindClusters \/ MakeClusters

SpecClusters == InitClusters /\ [][NextClusters]_vars

(***************************************************************************)
(* Clustering claims                                                       *)
(***************************************************************************)
N_pos == ALen(pos)
Returned == cl_pc # "call"
Id(i) == cluster_id.data[i]

\* C1: for every accepted non-empty point set the returned cluster_id gives
\* each particle index in [0,N) one id in [0,nclusters), every id in
\* [0,nclusters) is used, and make_clusters_from_ids yields nclusters
\* non-empty member lists that partition [0,N).
Thm_C1_DensePartition ==
    /\ (Returned /\ N_pos >= 1 /\ (use_pbc => (box_x > 0 /\ box_y > 0)))
          => cluster_id.ptr
    /\ cluster_id.ptr =>
          /\ DOMAIN cluster_id.data = Idx(N_pos)
          /\ \A i \in Idx(N_pos) : Id(i) \in Idx(nclusters)
          /\ \A k \in Idx(nclusters) : \E i \in Idx(N_pos) : Id(i) = k
    /\ cl_pc = "done" =>
          /\ clusters.ptr
          /\ DOMAIN clusters.data = Idx(nclusters)
          /\ \A k \in Idx(nclusters) : Len(clusters.data[k]) >= 1
          /\ \A k \in Idx(nclusters) : \A m \in 1..Len(clusters.data[k]) :
                clusters.data[k][m] \in Idx(N_pos)
          /\ \A i \in Idx(N_pos) :
                Cardinality({km \in {<<k, m>> : k \in Idx(nclusters), m \in 1..MaxN + 1} :
                                /\ km[2] <= Len(clusters.data[km[1]])
                                /\ clusters.data[km[1]][km[2]] = i}) = 1

Wit_C1_TwoClusters ==
    /\ cl_pc = "done"
    /\ N_pos = 3
    /\ nclusters = 2
    /\ \E k \in Idx(nclusters) : Len(clusters.data[k]) = 2

\* The claim's own notion of distance: the smallest distance between any two
\* periodic images when use_pbc is true, the raw Euclidean distance otherwise.
MinImageSq(d, L) ==
    LET K  == (Abs(d) \div L) + 1
        sq == {(d + k * L) * (d + k * L) : k \in (-K)..K}
    IN  CHOOSE m \in sq : \A o \in sq : m <= o

ClaimDist2(i, j) ==
    LET dx == pos[j].x - pos[i].x
        dy == pos[j].y - pos[i].y
    IN  IF use_pbc THEN MinImageSq(dx, box_x) + MinImageSq(dy, box_y)
                   ELSE dx * dx + dy * dy

Linked(i, j) == ClaimDist2(i, j) <= lbond * lbond

RECURSIVE Reach(_, _)
Reach(S, n) ==
    IF n = 0 THEN S
    ELSE Reach(S \cup {j \in Idx(N_pos) : \E i \in S : Linked(i, j)}, n - 1)

Chained(i, j) == j \in Reach({i}, N_pos)

\* C2: two particles get the same cluster id iff a chain of particles links
\* them, each consecutive pair at distance <= lbond (minimum-image distance
\* under use_pbc, raw distance otherwise); the cutoff is inclusive.
Thm_C2_ChainIff ==
    cluster_id.ptr =>
        \A i, j \in Idx(N_pos) : (Id(i) = Id(j)) <=> Chained(i, j)

\* a periodic cluster held together only by a chain, one of whose links
\* exists only through the wrap (the raw distance exceeds the cutoff)
Wit_C2_ChainAcrossWrap ==
    /\ cl_pc = "done"
    /\ use_pbc
    /\ \E i, j \in Idx(N_pos) : Id(i) = Id(j) /\ ~Linked(i, j)
    /\ \E i, j \in Idx(N_pos) :
          /\ i # j
          /\ Linked(i, j)
          /\ (pos[j].x - pos[i].x) * (pos[j].x - pos[i].x)
               + (pos[j].y - pos[i].y) * (pos[j].y - pos[i].y) > lbond * lbond

Perms(n) == {f \in [Idx(n) -> Idx(n)] : \A a, b \in Idx(n) : f[a] = f[b] => a = b}
Permuted(f) == [i \in Idx(N_pos) |-> pos[f[i]]]
ClusterPermuted(f) == find_clusters_from_vec2array(Permuted(f), lbond, use_pbc, box_x, box_y)

\* C3: clustering any permutation of the particles gives the same grouping
\* (the same partition once indices are mapped through the permutation).
Thm_C3_PermutationInvariant ==
    Returned =>
        \A f \in Perms(N_pos) :
            LET R == ClusterPermuted(f)
            IN  /\ R.ptr = cluster_id.ptr
                /\ R.ptr =>
                     /\ R.nclusters = nclusters
                     /\ \A i, j \in Idx(N_pos) :
                           (R.data[i] = R.data[j]) <=> (Id(f[i]) = Id(f[j]))

\* the same grouping under numerically different ids
Wit_C3_IdsDiffer ==
    /\ cl_pc = "done"
    /\ N_pos = 3
    /\ nclusters = 2
    /\ \E f \in Perms(N_pos) : \E i \in Idx(N_pos) :
          ClusterPermuted(f).data[i] # Id(f[i])

\* The C4 configuration on a grid of tenths: points (0.1,0) and (L-0.1,0),
\* cutoff 0.3, square box of side L.
C4Input(L) ==
    /\ pos = [i \in Idx(2) |-> IF i = 0 THEN [x |-> 1, y |-> 0] ELSE [x |-> L - 1, y |-> 0]]
    /\ lbond = 3
    /\ box_x = L
    /\ box_y = L

C4Outcome ==
    /\ cluster_id.ptr
    /\ use_pbc => Id(0) = Id(1)
    /\ ~use_pbc => Id(0) # Id(1)

\* C4 as stated: for a box of any side L the two points share a cluster id
\* under use_pbc and have different ids without it.
Orig_C4_AnyBoxSide ==
    \A L \in BoxLens : (L > 0 /\ Returned /\ C4Input(L)) => C4Outcome

\* C4 amended: the same for a box of side L > 0.5 (6 tenths or more), where
\* the two points are more than the cutoff apart without wrapping.
Thm_C4_BoxSideAboveHalf ==
    \A L \in BoxLens : (L >= 6 /\ Returned /\ C4Input(L)) => C4Outcome

Wit_C4_WrappedPair ==
    /\ cl_pc = "done"
    /\ C4Input(6)
    /\ use_pbc
    /\ Id(0) = Id(1)


(***************************************************************************)
(* Neighbor builder claims                                                 *)
(***************************************************************************)
M_coms == ALen(coms)
Succeeded == nb_pc = "done" /\ nb_ret.ptr
Nbrs(i) == {nb_ret.data[i][k] : k \in 1..Len(nb_ret.data[i])}

\* C5: after triangulate_get_neighbors succeeds, whatever edges Triangle
\* returned, the neighbor graph is symmetric, has no self-neighbor, has no
\* duplicate entry in any list, and every entry lies in [0,M).
Thm_C5_NeighborGraph ==
    Succeeded =>
        /\ DOMAIN nb_ret.data = Idx(M_coms)
        /\ \A i \in Idx(M_coms) :
              /\ Nbrs(i) \subseteq Idx(M_coms)
              /\ i \notin Nbrs(i)
              /\ Cardinality(Nbrs(i)) = Len(nb_ret.data[i])
              /\ \A j \in Idx(M_coms) : (j \in Nbrs(i)) <=> (i \in Nbrs(j))

\* a periodic run in which some scanned edge added nothing (it was rejected
\* or already present) and a point still has two neighbors
Wit_C5_PeriodicGraph ==
    /\ Succeeded
    /\ use_pbc
    /\ M_coms = 3
    /\ tri_nedges = 3
    /\ \E i \in Idx(M_coms) : Len(nb_ret.data[i]) = 2
    /\ \E i \in Idx(M_coms) : Len(nb_ret.data[i]) = 1

\* C6: triangulate_get_neighbors returns NULL, with no neighbor graph handed
\* to the caller, whenever it is given fewer than 3 points or Triangle
\* produces zero edges, with periodicity enabled or disabled; a failure never
\* returns a partially built graph.
Claim_C6_FailsBelowThreePoints ==
    nb_pc = "done" =>
        /\ (M_coms < 3 \/ tri_nedges = 0) => ~nb_ret.ptr
        /\ ~nb_ret.ptr => (nb_ret.data = EmptyArr /\ out_M = 0)

(***************************************************************************)
(* Correlation accumulators: what the three accumulate functions share.    *)
(***************************************************************************)
\* the pairs i < j of the double loops over M centres
Pairs(M) == {p \in Idx(M) \X Idx(M) : p[1] < p[2]}

\* the displacement folded whether or not periodicity is enabled
PairDelta_folded(c, p, pbc, bx, by) ==
    <<mic_delta(c[p[2]].x - c[p[1]].x, bx), mic_delta(c[p[2]].y - c[p[1]].y, by)>>

\* displacement from centre i to centre j, minimum-image under periodicity
PairDelta(c, p, pbc, bx, by) ==
    LET dx == c[p[2]].x - c[p[1]].x
        dy == c[p[2]].y - c[p[1]].y
    IN  IF pbc THEN <<mic_delta(dx, bx), mic_delta(dy, by)>> ELSE <<dx, dy>>

PairR2(c, p, pbc, bx, by) ==
    LET d == PairDelta(c, p, pbc, bx, by)
    IN  d[1] * d[1] + d[2] * d[2]

\* (int)floor(r / dr) for r = sqrt(r2)
BinOf(r2, w) ==
    CHOOSE b \in 0..r2 : (b * w) * (b * w) <= r2 /\ r2 < ((b + 1) * w) * ((b + 1) * w)

SetMax(S) == CHOOSE m \in S : \A v \in S : v <= m

RECURSIVE SumOver(_, _)
SumOver(f, S) ==
    IF S = {} THEN 0
    ELSE LET p == CHOOSE q \in S : TRUE
         IN  f[p] + SumOver(f, S \ {p})

(***************************************************************************)
(* g6accum.c                                                               *)
(***************************************************************************)
\* lines 52-70
g6accum_ensure_bins(A, bmax) ==
    IF bmax < 0 \/ bmax < A.nbins THEN A
    ELSE [A EXCEPT !.nbins = bmax + 1,
                   !.bins = [b \in Idx(bmax + 1) |->
                               IF b < A.nbins THEN A.bins[b] ELSE FreshG6Bin(b, A.dr)]]

\* lines 103 and 134: the pair lies beyond max_valid_r = 0.5 * fmin(box_x, box_y)
BeyondCutoff_never(r2, pbc, bx, by) == FALSE
BeyondCutoff(r2, pbc, bx, by) == pbc /\ 4 * r2 > Min2(bx, by) * Min2(bx, by)

\* lines 152-153: the snapshot's own mean for one bin
SnapMean_rawsum(sum, cnt) == Rat(sum, 1)
SnapMean(sum, cnt) == Rat(sum, cnt)

\* lines 72-161
g6accum_accumulate(A, c, psi6, pbc, bx, by) ==
    LET M     == ALen(c)
        kept  == {p \in Pairs(M) : ~BeyondCutoff(PairR2(c, p, pbc, bx, by), pbc, bx, by)}
        rmax2 == SetMax({0} \cup {PairR2(c, p, pbc, bx, by) : p \in kept})
        A1    == g6accum_ensure_bins(A, BinOf(rmax2, A.dr))
        inbin(b) == {p \in kept : BinOf(PairR2(c, p, pbc, bx, by), A.dr) = b}
        re    == [p \in Pairs(M) |-> psi6[p[1]].re * psi6[p[2]].re
                                     + psi6[p[1]].im * psi6[p[2]].im]
        im    == [p \in Pairs(M) |-> psi6[p[1]].im * psi6[p[2]].re
                                     - psi6[p[1]].re * psi6[p[2]].im]
        add(bin, b) ==
            LET snap_cnt == Cardinality(inbin(b))
            IN  IF snap_cnt <= 0 THEN bin
                ELSE [bin EXCEPT
                        !.re_sum = RAdd(@, SnapMean(SumOver(re, inbin(b)), snap_cnt)),
                        !.im_sum = RAdd(@, SnapMean(SumOver(im, inbin(b)), snap_cnt)),
                        !.pair_count = @ + snap_cnt,
                        !.sample_count = @ + 1]
    IN  IF M < 2 THEN A
        ELSE IF pbc /\ Min2(bx, by) <= 0 THEN A
        ELSE [A1 EXCEPT !.bins = [b \in Idx(A1.nbins) |-> add(A1.bins[b], b)]]

\* lines 190-199: the data rows of the output file, one per bin that has
\* samples, in increasing bin order (the magnitude column is the norm of re, im)
RECURSIVE G6Rows(_, _)
G6Rows(A, b) ==
    IF b >= A.nbins THEN <<>>
    ELSE LET ns  == A.bins[b].sample_count
             row == [r_center |-> A.bins[b].r_center,
                     re |-> RDivInt(A.bins[b].re_sum, ns),
                     im |-> RDivInt(A.bins[b].im_sum, ns),
                     n_snapshots |-> ns,
                     pair_count_total |-> A.bins[b].pair_count]
         IN  (IF ns <= 0 THEN <<>> ELSE <<row>>) \o G6Rows(A, b + 1)

g6accum_write(A) == G6Rows(A, 0)

(***************************************************************************)
(* graccum.c                                                               *)
(***************************************************************************)
\* growth that starts every bin afresh
gr_ensure_bins_reset(A, bmax) ==
    IF bmax < 0 \/ bmax < A.nbins THEN A
    ELSE [A EXCEPT !.nbins = bmax + 1,
                   !.bins = [b \in Idx(bmax + 1) |-> FreshGrBin(b, A.dr)]]

\* lines 53-69
gr_ensure_bins(A, bmax) ==
    IF bmax < 0 \/ bmax < A.nbins THEN A
    ELSE [A EXCEPT !.nbins = bmax + 1,
                   !.bins = [b \in Idx(bmax + 1) |->
                               IF b < A.nbins THEN A.bins[b] ELSE FreshGrBin(b, A.dr)]]

\* lines 27-29, in units of pi, for rin = b * dr and rout = (b + 1) * dr
shell_area(b, w) == ((b + 1) * (b + 1) - b * b) * w * w

\* lines 71-130
graccum_accumulate(A, c, pbc, bx, by) ==
    LET M     == ALen(c)
        rmax2 == SetMax({0} \cup {PairR2(c, p, pbc, bx, by) : p \in Pairs(M)})
        A1    == gr_ensure_bins(A, BinOf(rmax2, A.dr))
        inbin(b) == {p \in Pairs(M) : BinOf(PairR2(c, p, pbc, bx, by), A.dr) = b}
        area  == IF pbc THEN bx * by ELSE 0
        add(bin, b) ==
            LET da == shell_area(b, A.dr)
            IN  [bin EXCEPT
                   !.pair_count = @ + Cardinality(inbin(b)),
                   !.shell_area_sum = @ + da,
                   !.ideal_pairs_sum = IF area > 0
                                       THEN RAdd(@, Rat(M * M * da, 2 * area))
                                       ELSE @]
    IN  IF M < 2 THEN A
        ELSE IF pbc /\ (bx <= 0 \/ by <= 0) THEN A
        ELSE [A1 EXCEPT !.bins = [b \in Idx(A1.nbins) |-> add(A1.bins[b], b)],
                        !.nframes = @ + 1]

\* lines 133-137, in units of 1/pi
gr_value(bin) ==
    IF bin.ideal_pairs_sum[1] <= 0 THEN RZero
    ELSE Rat(bin.pair_count * bin.ideal_pairs_sum[2], bin.ideal_pairs_sum[1])

\* lines 187-194: one data row per bin
graccum_write(A) ==
    [b \in 1..A.nbins |->
        LET bin == A.bins[b - 1]
        IN  [r_center |-> bin.r_center,
             pair_count |-> bin.pair_count,
             shell_area |-> bin.shell_area_sum,
             pair_density |-> IF bin.shell_area_sum > 0
                              THEN Rat(bin.pair_count, bin.shell_area_sum) ELSE RZero,
             ideal_pairs |-> bin.ideal_pairs_sum,
             g_r |-> gr_value(bin)]]

(***************************************************************************)
(* gtaccum.c and the global orientation (psi6.c).  Angles and cosines are  *)
(* not computed: the orientation is the direction class of the summed      *)
(* psi6, and the six-cosine sum of a pair is a fixed integer function of   *)
(* the arguments the code's sum depends on, even in the displacement as    *)
(* the cosine sum is.                                                      *)
(***************************************************************************)
Sign(v) == IF v > 0 THEN 1 ELSE IF v < 0 THEN -1 ELSE 0

\* psi6.c lines 65-81
compute_global_orientation_angle(psi6) ==
    LET M  == ALen(psi6)
        re == [i \in Idx(M) |-> psi6[i].re]
        im == [i \in Idx(M) |-> psi6[i].im]
    IN  IF M <= 0 THEN 0
        ELSE 3 * Sign(SumOver(im, Idx(M))) + Sign(SumOver(re, Idx(M)))

\* gtaccum.c lines 119-123
CosSum6(theta_G, a, d) ==
    (((theta_G + 5) * (d[1] * d[1] + 3 * d[2] * d[2]) + a) % 7) - 3

\* growth that stops one bin short of bmax
gt_ensure_bins_short(A, bmax) ==
    IF bmax < 1 \/ bmax - 1 < A.nbins THEN A
    ELSE [A EXCEPT !.nbins = bmax,
                   !.bins = [b \in Idx(bmax) |->
                               IF b < A.nbins THEN A.bins[b] ELSE FreshGtBin(b, A.dr)]]

\* gtaccum.c lines 46-62
gt_ensure_bins(A, bmax) ==
    IF bmax < 0 \/ bmax < A.nbins THEN A
    ELSE [A EXCEPT !.nbins = bmax + 1,
                   !.bins = [b \in Idx(bmax + 1) |->
                               IF b < A.nbins THEN A.bins[b] ELSE FreshGtBin(b, A.dr)]]

\* a call that grows the bin array before it looks at a_lattice
gtaccum_accumulate_late(A, c, theta_G, a, pbc, bx, by) ==
    LET M     == ALen(c)
        rmax2 == SetMax({0} \cup {PairR2(c, p, pbc, bx, by) : p \in Pairs(M)})
    IN  IF M < 2 THEN A
        ELSE IF pbc /\ (bx <= 0 \/ by <= 0) THEN A
        ELSE gt_ensure_bins(A, BinOf(rmax2, A.dr))

\* gtaccum.c lines 63-129
gtaccum_accumulate(A, c, theta_G, a, pbc, bx, by) ==
    LET M     == ALen(c)
        rmax2 == SetMax({0} \cup {PairR2(c, p, pbc, bx, by) : p \in Pairs(M)})
        A1    == gt_ensure_bins(A, BinOf(rmax2, A.dr))
        inbin(b) == {p \in Pairs(M) : BinOf(PairR2(c, p, pbc, bx, by), A.dr) = b}
        ct    == [p \in Pairs(M) |-> CosSum6(theta_G, a, PairDelta(c, p, pbc, bx, by))]
        add(bin, b) ==
            [bin EXCEPT !.ct_sum = @ + SumOver(ct, inbin(b)),
                        !.pair_count = @ + Cardinality(inbin(b))]
    IN  IF M < 2 THEN A
        ELSE IF a <= 0 THEN A
        ELSE IF pbc /\ (bx <= 0 \/ by <= 0) THEN A
        ELSE [A1 EXCEPT !.bins = [b \in Idx(A1.nbins) |-> add(A1.bins[b], b)]]

\* gtaccum.c lines 152-155: one data row per bin; ct_sum holds six-cosine
\* sums, so the average is ct_sum / (6 * pair_count)
gtaccum_write(A) ==
    [b \in 1..A.nbins |->
        LET bin == A.bins[b - 1]
        IN  [r_center |-> bin.r_center,
             gT_avg |-> IF bin.pair_count > 0
                        THEN Rat(bin.ct_sum, 6 * bin.pair_count) ELSE RZero,
             pair_count |-> bin.pair_count]]

(***************************************************************************)
(* The accumulation loops of the two drivers (Codes/main.c for g6,         *)
(* Translational_order/main.c pass 1 for g(r) and pass 2 for gT): a fresh  *)
(* accumulator, run parameters fixed for the run, one snapshot per step.   *)
(***************************************************************************)
Sites ==
    <<[x |-> 0, y |-> 0, re |-> 1,  im |-> 0],
      [x |-> 1, y |-> 0, re |-> 0,  im |-> 1],
      [x |-> 2, y |-> 3, re |-> -1, im |-> 0],
      [x |-> 2, y |-> 0, re |-> 0,  im |-> -1]>>

SiteLists ==
    {<<>>, <<1>>, <<1, 2>>, <<2, 1>>, <<1, 3>>, <<2, 3>>, <<1, 4>>,
     <<1, 2, 3>>, <<1, 3, 4>>, <<1, 1, 2, 2>>}

Snapshot(l) ==
    [coms |-> [i \in Idx(Len(l)) |-> [x |-> Sites[l[i + 1]].x, y |-> Sites[l[i + 1]].y]],
     psi6 |-> [i \in Idx(Len(l)) |-> [re |-> Sites[l[i + 1]].re, im |-> Sites[l[i + 1]].im]]]

Snapshots == {Snapshot(l) : l \in SiteLists}

RunBoxes == {<<FALSE, 4, 4>>, <<TRUE, 4, 4>>, <<TRUE, 8, 4>>, <<TRUE, 0, 4>>}
BinWidths == {1, 2}
Spacings == {0, 1}

InitAccum ==
    /\ ClIdle
    /\ PkIdle
    /\ DrvIdle
    /\ CmIdle
    /\ NbIdle
    /\ pass \in {"g6", "gr", "gt"}
    /\ \E rb \in RunBoxes : use_pbc = rb[1] /\ box_x = rb[2] /\ box_y = rb[3]
    /\ dr \in BinWidths
    /\ a_lattice \in (IF pass = "gt" THEN Spacings ELSE {0})
    /\ g6A = g6accum_create(dr)
    /\ grA = graccum_create(dr)
    /\ gtA = gtaccum_create(dr)
    /\ hist = <<>>

G6Accumulate ==
    /\ pass = "g6"
    /\ Len(hist) < MaxFrames
    /\ \E s \in Snapshots :
         /\ g6A' = g6accum_accumulate(g6A, s.coms, s.psi6, use_pbc, box_x, box_y)
         /\ hist' = Append(hist, s)
    /\ UNCHANGED <<runVars, pkVars, drVars, cmVars, clVars, nbVars, pass, dr, a_lattice, grA, gtA>>

GrAccumulate ==
    /\ pass = "gr"
    /\ Len(hist) < MaxFrames
    /\ \E s \in Snapshots :
         /\ grA' = graccum_accumulate(grA, s.coms, use_pbc, box_x, box_y)
         /\ hist' = Append(hist, s)
    /\ UNCHANGED <<runVars, pkVars, drVars, cmVars, clVars, nbVars, pass, dr, a_lattice, g6A, gtA>>

GtAccumulate ==
    /\ pass = "gt"
    /\ Len(hist) < MaxFrames
    /\ \E s \in Snapshots :
         /\ gtA' = gtaccum_accumulate(gtA, s.coms,
                                      compute_global_orientation_angle(s.psi6),
                                      a_lattice, use_pbc, box_x, box_y)
         /\ hist' = Append(hist, s)
    /\ UNCHANGED <<runVars, pkVars, drVars, cmVars, clVars, nbVars, pass, dr, a_lattice, g6A, grA>>

NextAccum == G6Accumulate \/ GrAccumulate \/ GtAccumulate

SpecAccum == InitAccum /\ [][NextAccum]_vars

(***************************************************************************)
(* Accumulator claims.  The history is read with the claims' own notions:  *)
(* a call is processed when it has at least two centres and, under         *)
(* periodicity, a positive box; distances are smallest-image distances.    *)
(***************************************************************************)
Took(s) == ALen(s.coms) >= 2 /\ (use_pbc => (box_x > 0 /\ box_y > 0))

SnapDist2(s, p) ==
    LET dx == s.coms[p[2]].x - s.coms[p[1]].x
        dy == s.coms[p[2]].y - s.coms[p[1]].y
    IN  IF use_pbc THEN MinImageSq(dx, box_x) + MinImageSq(dy, box_y)
                   ELSE dx * dx + dy * dy

\* r <= half the smaller box side
WithinHalfBox(r2) == 4 * r2 <= Min2(box_x, box_y) * Min2(box_x, box_y)

\* the bin [b * dr, (b + 1) * dr) that holds r
RadialBin(r2) == CHOOSE b \in 0..r2 : b * b * dr * dr <= r2 /\ r2 < (b + 1) * (b + 1) * dr * dr

SnapPairs(s) == IF Took(s) THEN Pairs(ALen(s.coms)) ELSE {}

\* the pairs of a snapshot that g6 counts in bin b
G6PairsIn(s, b) ==
    {p \in SnapPairs(s) : /\ use_pbc => WithinHalfBox(SnapDist2(s, p))
                          /\ RadialBin(SnapDist2(s, p)) = b}

\* psi6(i) * conj(psi6(j))
Psi6Prod(s, p) ==
    LET u == s.psi6[p[1]]
        v == s.psi6[p[2]]
    IN  <<u.re * v.re + u.im * v.im, u.im * v.re - u.re * v.im>>

\* a snapshot's own mean of the product over its pairs in bin b
SnapBinMean(s, b) ==
    LET P == G6PairsIn(s, b)
        n == Cardinality(P)
    IN  <<Rat(SumOver([p \in P |-> Psi6Prod(s, p)[1]], P), n),
          Rat(SumOver([p \in P |-> Psi6Prod(s, p)[2]], P), n)>>

RECURSIVE RSum(_, _)
RSum(f, S) ==
    IF S = {} THEN RZero
    ELSE LET k == CHOOSE q \in S : TRUE
         IN  RAdd(f[k], RSum(f, S \ {k}))

G6Contrib(b) == {k \in 1..Len(hist) : G6PairsIn(hist[k], b) # {}}

MeanOfSnapMeans(b) ==
    LET K == G6Contrib(b)
        n == Cardinality(K)
    IN  <<RDivInt(RSum([k \in K |-> SnapBinMean(hist[k], b)[1]], K), n),
          RDivInt(RSum([k \in K |-> SnapBinMean(hist[k], b)[2]], K), n)>>

HistBins ==
    UNION {{RadialBin(SnapDist2(hist[k], p)) : p \in SnapPairs(hist[k])} : k \in 1..Len(hist)}

G6RowsAt(b) ==
    {i \in 1..Len(g6accum_write(g6A)) : g6accum_write(g6A)[i].r_center = <<2 * b + 1, dr>>}

\* C7: the value g6accum_write writes for a bin is the arithmetic mean, over
\* the snapshots that had at least one pair in that bin, of each snapshot's
\* own mean of psi6(i)*conj(psi6(j)) over its pairs in the bin; a bin no
\* snapshot had a pair in gets no row.  Pair counts do not weight the mean.
Thm_C7_FrameEqualMean ==
    pass = "g6" =>
        \A b \in 0..SetMax({g6A.nbins} \cup HistBins) :
            IF G6Contrib(b) = {} THEN G6RowsAt(b) = {}
            ELSE \E i \in G6RowsAt(b) :
                    /\ G6RowsAt(b) = {i}
                    /\ g6accum_write(g6A)[i].re = MeanOfSnapMeans(b)[1]
                    /\ g6accum_write(g6A)[i].im = MeanOfSnapMeans(b)[2]

\* two snapshots with the same mean in a bin, different pair counts there,
\* and the written value equal to that mean
Wit_C7_SameMeanDifferentCounts ==
    /\ pass = "g6"
    /\ Len(hist) = 2
    /\ \E b \in HistBins :
         /\ G6Contrib(b) = {1, 2}
         /\ Cardinality(G6PairsIn(hist[1], b)) # Cardinality(G6PairsIn(hist[2], b))
         /\ SnapBinMean(hist[1], b) = SnapBinMean(hist[2], b)
         /\ SnapBinMean(hist[1], b) # <<RZero, RZero>>
         /\ \E i \in G6RowsAt(b) :
              <<g6accum_write(g6A)[i].re, g6accum_write(g6A)[i].im>> = SnapBinMean(hist[1], b)

\* C8: under periodicity g6 counts exactly the pairs whose smallest-image
\* distance is at most half the smaller box side: every bin's sums, pair
\* count and sample count come from those pairs alone, the bin array reaches
\* only as far as the farthest of them, and no bin has its lower edge above
\* the cutoff.
Thm_C8_HalfBoxCutoff ==
    (pass = "g6" /\ use_pbc) =>
        /\ g6A.nbins = IF \E k \in 1..Len(hist) : Took(hist[k])
                       THEN 1 + SetMax({0} \cup {b \in HistBins : G6Contrib(b) # {}})
                       ELSE 0
        /\ \A b \in Idx(g6A.nbins) :
             /\ 2 * b * dr <= Min2(box_x, box_y)
             /\ g6A.bins[b].pair_count =
                    SumOver([k \in 1..Len(hist) |-> Cardinality(G6PairsIn(hist[k], b))],
                            1..Len(hist))
             /\ g6A.bins[b].sample_count = Cardinality(G6Contrib(b))
             /\ g6A.bins[b].re_sum =
                    RSum([k \in G6Contrib(b) |-> SnapBinMean(hist[k], b)[1]], G6Contrib(b))
             /\ g6A.bins[b].im_sum =
                    RSum([k \in G6Contrib(b) |-> SnapBinMean(hist[k], b)[2]], G6Contrib(b))

\* a processed snapshot with a pair beyond the cutoff whose bin was not created
Wit_C8_FarPairLeftOut ==
    /\ pass = "g6"
    /\ use_pbc
    /\ g6A.nbins >= 1
    /\ \E k \in 1..Len(hist) : \E p \in SnapPairs(hist[k]) :
         /\ ~WithinHalfBox(SnapDist2(hist[k], p))
         /\ RadialBin(SnapDist2(hist[k], p)) >= g6A.nbins

\* the history accumulated in another order into a fresh accumulator
Reordered(f) == [k \in 1..Len(hist) |-> hist[f[k - 1] + 1]]

RECURSIVE G6Replay(_, _)
G6Replay(h, n) ==
    IF n = 0 THEN g6accum_create(dr)
    ELSE g6accum_accumulate(G6Replay(h, n - 1), h[n].coms, h[n].psi6, use_pbc, box_x, box_y)

RECURSIVE GrReplay(_, _)
GrReplay(h, n) ==
    IF n = 0 THEN graccum_create(dr)
    ELSE graccum_accumulate(GrReplay(h, n - 1), h[n].coms, use_pbc, box_x, box_y)

RECURSIVE GtReplay(_, _)
GtReplay(h, n) ==
    IF n = 0 THEN gtaccum_create(dr)
    ELSE gtaccum_accumulate(GtReplay(h, n - 1), h[n].coms,
                            compute_global_orientation_angle(h[n].psi6),
                            a_lattice, use_pbc, box_x, box_y)

G6OrderIndependent ==
    \A f \in Perms(Len(hist)) :
        g6accum_write(G6Replay(Reordered(f), Len(hist))) = g6accum_write(g6A)

GrOrderIndependent ==
    \A f \in Perms(Len(hist)) :
        graccum_write(GrReplay(Reordered(f), Len(hist))) = graccum_write(grA)

GtOrderIndependent ==
    \A f \in Perms(Len(hist)) :
        gtaccum_write(GtReplay(Reordered(f), Len(hist))) = gtaccum_write(gtA)

\* C9: accumulating the same snapshots in any other order into a fresh g6,
\* g(r) or gT accumulator gives the same final per-bin values (for g(r): pair
\* count, ideal-pair total, shell-area total and g(r) value of every bin).
Claim_C9_OrderIndependent ==
    /\ pass = "g6" => G6OrderIndependent
    /\ pass = "gr" => GrOrderIndependent
    /\ pass = "gt" => GtOrderIndependent

\* a snapshot's ideal-gas pair count for bin b, in units of pi:
\* 0.5 * M * (M / (box_x * box_y)) * (r_out^2 - r_in^2)
IdealCount(s, b) ==
    LET M == ALen(s.coms)
    IN  Rat(M * M * ((b + 1) * (b + 1) * dr * dr - b * b * dr * dr), 2 * box_x * box_y)

GrPairsIn(s, b) == {p \in SnapPairs(s) : RadialBin(SnapDist2(s, p)) = b}

GrTook == {k \in 1..Len(hist) : Took(hist[k])}

\* C10: under periodicity the finalized g(r) of every bin b is the total
\* number of pairs that fell in b over all accumulated snapshots divided by
\* the sum, over all accumulated snapshots, of the snapshot's ideal-gas pair
\* count for b - bins first created by a later snapshot included.
Claim_C10_IdealOverAllSnapshots ==
    (pass = "gr" /\ use_pbc) =>
        \A b \in Idx(grA.nbins) :
            LET pairs == SumOver([k \in GrTook |-> Cardinality(GrPairsIn(hist[k], b))], GrTook)
                ideal == RSum([k \in GrTook |-> IdealCount(hist[k], b)], GrTook)
            IN  graccum_write(grA)[b + 1].g_r = Rat(pairs * ideal[2], ideal[1])

(***************************************************************************)
(* graccum.c: graccum_estimate_first_peak_a.  g(r) values are kept in      *)
(* units of 1/pi, so "g > 1.0" is "value > pi"; for the denominators that  *)
(* occur no value lies between pi and 355/113, which makes the comparison  *)
(* with 355/113 exact.                                                     *)
(***************************************************************************)
RLess(p, q) == p[1] * q[2] < q[1] * p[2]

ExceedsOne(v) == v[1] * 113 >= 355 * v[2]

\* lines 143-159: the loop over the interior bins
first_local_peak(A) ==
    LET g(b) == gr_value(A.bins[b])
        Q    == {b \in 1..(A.nbins - 2) : /\ RLess(g(b - 1), g(b))
                                          /\ ~RLess(g(b), g(b + 1))
                                          /\ ExceedsOne(g(b))}
    IN  IF Q = {} THEN -1 ELSE CHOOSE b \in Q : \A o \in Q : b <= o

global_peak(A) ==
    LET g(b) == gr_value(A.bins[b])
        I    == 1..(A.nbins - 2)
        Q    == {b \in I : \A o \in I : ~RLess(g(b), g(o))}
    IN  IF Q = {} THEN -1 ELSE CHOOSE b \in Q : \A o \in Q : b <= o

\* lines 139-165
graccum_estimate_first_peak_a(A) ==
    IF A.nbins < 3 THEN NoPeak
    ELSE LET pick == IF first_local_peak(A) >= 0 THEN first_local_peak(A)
                                                 ELSE global_peak(A)
         IN  IF pick < 0 \/ pick >= A.nbins THEN NoPeak
             ELSE A.bins[pick].r_center

(***************************************************************************)
(* The estimate as the driver calls it after pass 1                        *)
(* (Translational_order/main.c 195): an accumulator of one frame of       *)
(* PeakFrame.M centres in a square box of side PeakFrame.box, any pair     *)
(* count per bin.                                                          *)
(***************************************************************************)
PeakCounts == {0, 1, 3, 5, 8}
PeakFrame == [M |-> 10, box |-> 20]

PeakInput(cnt, pbc, w) ==
    LET n == ALen(cnt)
    IN  [bins |-> [b \in Idx(n) |->
                     [r_center |-> <<2 * b + 1, w>>,
                      shell_area_sum |-> shell_area(b, w),
                      ideal_pairs_sum |-> IF pbc
                          THEN Rat(PeakFrame.M * PeakFrame.M * shell_area(b, w),
                                   2 * PeakFrame.box * PeakFrame.box)
                          ELSE RZero,
                      pair_count |-> cnt[b]]],
         nbins |-> n, dr |-> w, nframes |-> IF n = 0 THEN 0 ELSE 1]

CountArrays == UNION {[Idx(n) -> PeakCounts] : n \in 0..MaxBins}

InitPeak ==
    /\ ClIdle
    /\ NbIdle
    /\ use_pbc \in BOOLEAN
    /\ box_x = PeakFrame.box
    /\ box_y = PeakFrame.box
    /\ pass = "estimate"
    /\ dr = 1
    /\ a_lattice = 0
    /\ g6A = g6accum_create(0)
    /\ gtA = gtaccum_create(0)
    /\ hist = <<>>
    /\ grA \in {PeakInput(cnt, use_pbc, dr) : cnt \in CountArrays}
    /\ pk_pc = "call"
    /\ peak_a = NoPeak
    /\ DrvIdle
    /\ CmIdle

EstimateFirstPeak ==
    /\ pk_pc = "call"
    /\ peak_a' = graccum_estimate_first_peak_a(grA)
    /\ pk_pc' = "done"
    /\ UNCHANGED <<runVars, clVars, nbVars, accVars, drVars, cmVars>>

NextPeak == EstimateFirstPeak

SpecPeak == InitPeak /\ [][NextPeak]_vars

\* the claims' reading of the accumulator: the g(r) value of a bin and the
\* centre radius of a bin
GrOf(b) ==
    LET bin == grA.bins[b]
    IN  IF bin.ideal_pairs_sum = RZero THEN RZero
        ELSE Rat(bin.pair_count * bin.ideal_pairs_sum[2], bin.ideal_pairs_sum[1])

CenterOf(b) == <<2 * b + 1, dr>>

\* bins whose value strictly exceeds both neighbours and exceeds 1.0
StrictPeaks ==
    {b \in 1..(grA.nbins - 2) : /\ RLess(GrOf(b - 1), GrOf(b))
                                /\ RLess(GrOf(b + 1), GrOf(b))
                                /\ ExceedsOne(GrOf(b))}

\* bins that exceed the left neighbour and 1.0 and at least equal the right one
PlateauPeaks ==
    {b \in 1..(grA.nbins - 2) : /\ RLess(GrOf(b - 1), GrOf(b))
                                /\ ~RLess(GrOf(b), GrOf(b + 1))
                                /\ ExceedsOne(GrOf(b))}

\* C11: when some bin strictly exceeds both neighbours and 1.0, the estimate
\* is the centre radius of the lowest-index such bin; a bin that only equals
\* a neighbour (a plateau) is not taken in its place.
Claim_C11_FirstStrictPeak ==
    (pk_pc = "done" /\ StrictPeaks # {}) =>
        \E b \in StrictPeaks : /\ \A o \in StrictPeaks : b <= o
                               /\ peak_a = CenterOf(b)

\* C12: with at least 3 bins and no bin qualifying as a local maximum (even
\* counting a plateau), the estimate is the centre radius of a bin holding
\* the maximum g(r) over all bins, the first and the last included.
Claim_C12_GlobalMaxOverAllBins ==
    (pk_pc = "done" /\ grA.nbins >= 3 /\ PlateauPeaks = {}) =>
        \E b \in Idx(grA.nbins) : /\ \A o \in Idx(grA.nbins) : ~RLess(GrOf(b), GrOf(o))
                                  /\ peak_a = CenterOf(b)

(***************************************************************************)
(* The two drivers (Codes/main.c and Translational_order/main.c).  A file  *)
(* of the run is described by what its stages meet: whether it opens and   *)
(* has rows, which centres and psi6 its stages yield when they succeed,    *)
(* whether Triangle produces edges, and whether an allocation fails (in    *)
(* compute_psi6 or for the scratch arrays of g6accum_accumulate).          *)
(***************************************************************************)
DrvSnaps == <<Snapshot(<<1>>), Snapshot(<<1, 2>>), Snapshot(<<1, 2, 3>>)>>

DrvFrames ==
    {[file |-> "missing", snap |-> 1, edges |-> FALSE, oom |-> "none"],
     [file |-> "empty", snap |-> 1, edges |-> FALSE, oom |-> "none"]}
    \cup {[file |-> "ok", snap |-> k, edges |-> e, oom |-> "none"] :
             k \in DOMAIN DrvSnaps, e \in BOOLEAN}
    \cup {[file |-> "ok", snap |-> 2, edges |-> TRUE, oom |-> o] : o \in {"psi6", "scratch"}}

PathLists == UNION {[1..n -> DrvFrames] : n \in 0..MaxFrames}

\* command lines: lbond, dr, USE_PBC, BOX_X, BOX_Y
DrvConfigs ==
    {[lbond |-> 1, dr |-> 1, pbc |-> TRUE,  bx |-> 4, by |-> 4],
     [lbond |-> 1, dr |-> 1, pbc |-> FALSE, bx |-> 4, by |-> 4],
     [lbond |-> 1, dr |-> 1, pbc |-> FALSE, bx |-> 0, by |-> 4],
     [lbond |-> 0, dr |-> 1, pbc |-> TRUE,  bx |-> 4, by |-> 4],
     [lbond |-> 1, dr |-> 0, pbc |-> TRUE,  bx |-> 4, by |-> 4],
     [lbond |-> 1, dr |-> 1, pbc |-> TRUE,  bx |-> 0, by |-> 4]}

\* g6accum.c lines 108-123: the call grows the bin array and then returns
\* because a scratch array could not be allocated
g6accum_accumulate_oom(A, c, pbc, bx, by) ==
    LET M     == ALen(c)
        kept  == {p \in Pairs(M) : ~BeyondCutoff(PairR2(c, p, pbc, bx, by), pbc, bx, by)}
        rmax2 == SetMax({0} \cup {PairR2(c, p, pbc, bx, by) : p \in kept})
    IN  IF M < 2 THEN A
        ELSE IF pbc /\ Min2(bx, by) <= 0 THEN A
        ELSE g6accum_ensure_bins(A, BinOf(rmax2, A.dr))

\* Codes/main.c lines 176-322: the stages of one snapshot up to the
\* accumulate call, with the messages they and main write
HexStages(f, pbc, bx, by) ==
    LET M == ALen(DrvSnaps[f.snap].coms)
    IN  IF f.file = "missing"
        THEN [ok |-> FALSE, stage |-> "read",
              msgs |-> <<"read_snapshot_xy: cannot open", "failed to read (skipping)">>]
        ELSE IF f.file = "empty"
        THEN [ok |-> FALSE, stage |-> "empty", msgs |-> <<"empty snapshot (skipping)">>]
        ELSE IF pbc /\ (bx <= 0 \/ by <= 0)
        THEN [ok |-> FALSE, stage |-> "clustering",
              msgs |-> <<"find_clusters: use_pbc true but box_x/box_y not positive",
                         "clustering failed (null cluster_id)">>]
        ELSE IF total_points(M, pbc) < 3 \/ ~f.edges
        THEN [ok |-> FALSE, stage |-> "triangulation",
              msgs |-> <<"triangulate: no edges produced",
                         "triangulate_get_neighbors failed (skipping)">>]
        ELSE IF f.oom = "psi6"
        THEN [ok |-> FALSE, stage |-> "psi6",
              msgs |-> <<"compute_psi6: OOM", "compute_psi6 failed (skipping)">>]
        ELSE [ok |-> TRUE, stage |-> "accumulate", msgs |-> <<>>]

\* Translational_order/main.c lines 47-93
build_coms_for_frame(f, pbc, bx, by) ==
    LET M == ALen(DrvSnaps[f.snap].coms)
    IN  IF f.file = "missing"
        THEN [rc |-> 2, msgs |-> <<"read_snapshot_xy: cannot open">>]
        ELSE IF f.file = "empty" THEN [rc |-> 2, msgs |-> <<>>]
        ELSE IF pbc /\ (bx <= 0 \/ by <= 0)
        THEN [rc |-> 3, msgs |-> <<"find_clusters: use_pbc true but box_x/box_y not positive">>]
        ELSE IF M < 2 THEN [rc |-> 3, msgs |-> <<>>]
        ELSE [rc |-> 0, msgs |-> <<>>]

\* Translational_order/main.c lines 178-180
Pass1Stages(f, pbc, bx, by) ==
    LET r == build_coms_for_frame(f, pbc, bx, by)
    IN  IF r.rc # 0 THEN [ok |-> FALSE, stage |-> "build_coms", msgs |-> r.msgs]
        ELSE [ok |-> TRUE, stage |-> "accumulate", msgs |-> <<>>]

\* Translational_order/main.c lines 218-235
Pass2Stages(f, pbc, bx, by) ==
    LET r == build_coms_for_frame(f, pbc, bx, by)
        M == ALen(DrvSnaps[f.snap].coms)
    IN  IF r.rc # 0 THEN [ok |-> FALSE, stage |-> "build_coms", msgs |-> r.msgs]
        ELSE IF total_points(M, pbc) < 3 \/ ~f.edges
        THEN [ok |-> FALSE, stage |-> "triangulation",
              msgs |-> <<"triangulate: no edges produced">>]
        ELSE IF f.oom = "psi6"
        THEN [ok |-> FALSE, stage |-> "psi6", msgs |-> <<"compute_psi6: OOM">>]
        ELSE [ok |-> TRUE, stage |-> "accumulate", msgs |-> <<>>]

\* the "continue" of a failed stage
Skips_never(st) == FALSE
Skips(st) == ~st.ok

\* argv[10]: absent, given and not positive, given and positive
Overrides == {NoOverride, [given |-> TRUE, val |-> 0], [given |-> TRUE, val |-> 2]}

InitDriver ==
    /\ NbIdle
    /\ PkIdle
    /\ CmIdle
    /\ pos = EmptyArr
    /\ cl_pc = "idle"
    /\ cluster_id = NullIds
    /\ nclusters = 0
    /\ clusters = NullClusters
    /\ uf_st = uf_init(0)
    /\ uf_op = NoUfCall
    /\ drv \in {"hexatic", "translational"}
    /\ \E cfg \in DrvConfigs :
         /\ lbond = cfg.lbond
         /\ dr = cfg.dr
         /\ use_pbc = cfg.pbc
         /\ box_x = cfg.bx
         /\ box_y = cfg.by
    /\ paths \in PathLists
    /\ a_override \in (IF drv = "translational" THEN Overrides ELSE {NoOverride})
    /\ Agr_live = FALSE
    /\ drv_pc = "start"
    /\ ip = 0
    /\ log = <<>>
    /\ status = 0
    /\ files_read = 0
    /\ outputs = {}
    /\ pass = "idle"
    /\ a_lattice = 0
    /\ g6A = g6accum_create(0)
    /\ grA = graccum_create(0)
    /\ gtA = gtaccum_create(0)
    /\ hist = <<>>

Exit(rc, msgs) ==
    /\ drv_pc' = "exit"
    /\ status' = rc
    /\ log' = log \o msgs

\* Codes/main.c lines 121-166: no check of lbond, dr or the box; the file
\* selection; g6accum_create
HexStart ==
    /\ drv = "hexatic"
    /\ drv_pc = "start"
    /\ IF Len(paths) = 0
       THEN Exit(1, <<"No files found in range">>) /\ UNCHANGED g6A
       ELSE IF dr <= 0
       THEN /\ Exit(1, <<"g6accum_create: dr must be > 0", "Failed to create g6 accumulator">>)
            /\ UNCHANGED g6A
       ELSE /\ g6A' = g6accum_create(dr)
            /\ drv_pc' = "loop"
            /\ UNCHANGED <<status, log>>
    /\ UNCHANGED <<runVars, clVars, nbVars, pkVars, cmVars, pass, dr, a_lattice, grA, gtA,
                   hist, drv, paths, ip, files_read, outputs, a_override, Agr_live>>

\* Codes/main.c lines 168-338: one pass of the loop body
HexFrame ==
    /\ drv = "hexatic"
    /\ drv_pc = "loop"
    /\ ip < Len(paths)
    /\ LET f  == paths[ip + 1]
           s  == DrvSnaps[f.snap]
           st == HexStages(f, use_pbc, box_x, box_y)
       IN  /\ log' = log \o st.msgs
           /\ IF Skips(st) THEN UNCHANGED <<g6A, hist>>
              ELSE /\ g6A' = IF f.oom = "scratch"
                             THEN g6accum_accumulate_oom(g6A, s.coms, use_pbc, box_x, box_y)
                             ELSE g6accum_accumulate(g6A, s.coms, s.psi6, use_pbc, box_x, box_y)
                   /\ hist' = Append(hist, s)
    /\ ip' = ip + 1
    /\ files_read' = files_read + 1
    /\ UNCHANGED <<runVars, clVars, nbVars, pkVars, cmVars, pass, dr, a_lattice, grA, gtA,
                   drv, drv_pc, paths, status, outputs, a_override, Agr_live>>

\* Codes/main.c lines 340-352
HexFinish ==
    /\ drv = "hexatic"
    /\ drv_pc = "loop"
    /\ ip = Len(paths)
    /\ outputs' = outputs \cup {"g6_avg"}
    /\ Exit(0, <<>>)
    /\ UNCHANGED <<runVars, clVars, nbVars, accVars, pkVars, cmVars, drv, paths, ip, files_read, a_override, Agr_live>>

\* Translational_order/main.c lines 112-174: the configuration checks, the
\* file selection, graccum_create
TrStart ==
    /\ drv = "translational"
    /\ drv_pc = "start"
    /\ IF dr <= 0 \/ lbond <= 0
       THEN Exit(1, <<"lbond and dr must be > 0">>) /\ UNCHANGED <<grA, Agr_live>>
       ELSE IF use_pbc /\ (box_x <= 0 \/ box_y <= 0)
       THEN /\ Exit(1, <<"box_x and box_y must be > 0 when USE_PBC=1">>)
            /\ UNCHANGED <<grA, Agr_live>>
       ELSE IF a_override.given /\ a_override.val <= 0
       THEN /\ Exit(1, <<"A_LATTICE_OVERRIDE must be > 0 when provided">>)
            /\ UNCHANGED <<grA, Agr_live>>
       ELSE IF Len(paths) = 0
       THEN Exit(1, <<"No files in range">>) /\ UNCHANGED <<grA, Agr_live>>
       ELSE /\ grA' = graccum_create(dr)
            /\ Agr_live' = TRUE
            /\ drv_pc' = "pass1"
            /\ UNCHANGED <<status, log>>
    /\ UNCHANGED <<runVars, clVars, nbVars, pkVars, cmVars, pass, dr, a_lattice, g6A, gtA,
                   hist, drv, paths, ip, files_read, outputs, a_override>>

\* Translational_order/main.c lines 176-183: one pass of the loop body
TrPass1Frame ==
    /\ drv = "translational"
    /\ drv_pc = "pass1"
    /\ ip < Len(paths)
    /\ LET f  == paths[ip + 1]
           s  == DrvSnaps[f.snap]
           st == Pass1Stages(f, use_pbc, box_x, box_y)
       IN  /\ log' = log \o st.msgs
           /\ IF Skips(st) THEN UNCHANGED <<grA, hist>>
              ELSE /\ grA' = graccum_accumulate(grA, s.coms, use_pbc, box_x, box_y)
                   /\ hist' = Append(hist, s)
    /\ ip' = ip + 1
    /\ files_read' = files_read + 1
    /\ UNCHANGED <<runVars, clVars, nbVars, pkVars, cmVars, pass, dr, a_lattice, g6A, gtA,
                   drv, drv_pc, paths, status, outputs, a_override, Agr_live>>

\* what the file system and the allocator may answer between the two passes:
\* whether the g(r) file can be opened, whether the gT accumulator can be
\* allocated
Outcomes == [gr_file : BOOLEAN, gt_alloc : BOOLEAN]

\* the estimate alone, whatever the override
LatticeConstant_estimate(ov, A) ==
    graccum_estimate_first_peak_a(A)[1] * graccum_estimate_first_peak_a(A)[2]

\* Translational_order/main.c line 195: the override if positive, else the
\* first-peak estimate (kept as twice its value in units of dr/2, so that
\* it stays an integer)
LatticeConstant(ov, A) ==
    LET a == graccum_estimate_first_peak_a(A)
    IN  IF ov.val > 0 THEN 2 * ov.val ELSE a[1] * a[2]

\* Translational_order/main.c lines 184-213: the g(r) file, the lattice
\* constant, graccum_free, gtaccum_create
TrPass1End ==
    /\ drv = "translational"
    /\ drv_pc = "pass1"
    /\ ip = Len(paths)
    /\ Agr_live' = FALSE
    /\ \E o \in Outcomes :
         LET a == LatticeConstant(a_override, grA)
         IN  IF ~o.gr_file
             THEN /\ Exit(1, <<"graccum_write: cannot open", "Failed writing g(r)">>)
                  /\ UNCHANGED <<outputs, a_lattice, gtA, ip, hist>>
             ELSE /\ outputs' = outputs \cup {"gr_avg"}
                  /\ IF a <= 0
                     THEN /\ Exit(1, <<"Could not estimate lattice constant from first RDF peak">>)
                          /\ UNCHANGED <<a_lattice, gtA, ip, hist>>
                     ELSE /\ a_lattice' = a
                          /\ IF ~o.gt_alloc
                             THEN /\ Exit(1, <<"gtaccum_create: OOM",
                                               "Failed creating gT(r) accumulator">>)
                                  /\ UNCHANGED <<gtA, ip, hist>>
                             ELSE /\ gtA' = gtaccum_create(dr)
                                  /\ ip' = 0
                                  /\ hist' = <<>>
                                  /\ drv_pc' = "pass2"
                                  /\ UNCHANGED <<status, log>>
    /\ UNCHANGED <<runVars, clVars, nbVars, pkVars, cmVars, pass, dr, g6A, grA,
                   drv, paths, files_read, a_override>>

\* Translational_order/main.c lines 216-243: one pass of the loop body
TrPass2Frame ==
    /\ drv = "translational"
    /\ drv_pc = "pass2"
    /\ ip < Len(paths)
    /\ LET f  == paths[ip + 1]
           s  == DrvSnaps[f.snap]
           st == Pass2Stages(f, use_pbc, box_x, box_y)
       IN  /\ log' = log \o st.msgs
           /\ IF Skips(st) THEN UNCHANGED <<gtA, hist>>
              ELSE /\ gtA' = gtaccum_accumulate(gtA, s.coms,
                                                compute_global_orientation_angle(s.psi6),
                                                a_lattice, use_pbc, box_x, box_y)
                   /\ hist' = Append(hist, s)
    /\ ip' = ip + 1
    /\ files_read' = files_read + 1
    /\ UNCHANGED <<runVars, clVars, nbVars, pkVars, cmVars, pass, dr, a_lattice, g6A, grA,
                   drv, drv_pc, paths, status, outputs, a_override, Agr_live>>

\* Translational_order/main.c lines 245-256: the gT file, which may fail to
\* open (rc = 1)
TrFinish ==
    /\ drv = "translational"
    /\ drv_pc = "pass2"
    /\ ip = Len(paths)
    /\ \/ outputs' = outputs \cup {"gt_avg"} /\ Exit(0, <<>>)
       \/ UNCHANGED outputs /\ Exit(1, <<"gtaccum_write: cannot open">>)
    /\ UNCHANGED <<runVars, clVars, nbVars, accVars, pkVars, cmVars, drv, paths, ip,
                   files_read, a_override, Agr_live>>

NextDriver ==
    \/ HexStart \/ HexFrame \/ HexFinish
    \/ TrStart \/ TrPass1Frame \/ TrPass1End \/ TrPass2Frame \/ TrFinish

SpecDriver == InitDriver /\ [][NextDriver]_vars

(***************************************************************************)
(* Driver claims                                                           *)
(***************************************************************************)
\* a step of a snapshot loop is about to process the file paths[ip + 1]
InFrameLoop == drv_pc \in {"loop", "pass1", "pass2"} /\ ip < Len(paths)

\* a stage of the snapshot's pipeline fails before the accumulate call:
\* unreadable file, empty point set, clustering (a rejected box; in the
\* translational driver also fewer than two clusters), triangulation, psi6
StageFails(f) ==
    \/ f.file # "ok"
    \/ use_pbc /\ (box_x <= 0 \/ box_y <= 0)
    \/ drv = "translational" /\ ALen(DrvSnaps[f.snap].coms) < 2
    \/ /\ drv_pc # "pass1"
       /\ \/ ~f.edges
          \/ ALen(DrvSnaps[f.snap].coms) * (IF use_pbc THEN 9 ELSE 1) < 3
          \/ f.oom = "psi6"

\* C13: a snapshot with a failing stage changes no accumulator and the run
\* goes on to the next snapshot; an accumulator changes only in a step whose
\* snapshot passed every stage.
Thm_C13_FailedSnapshotLeavesAccumulators ==
    [][InFrameLoop =>
         /\ StageFails(paths[ip + 1]) =>
                /\ g6A' = g6A /\ grA' = grA /\ gtA' = gtA
                /\ ip' = ip + 1
                /\ drv_pc' = drv_pc
         /\ (g6A' # g6A \/ grA' # grA \/ gtA' # gtA) => ~StageFails(paths[ip + 1])]_vars

\* a first snapshot accumulated, a second one skipped, the accumulator still
\* holding the first one's sample
Wit_C13_SkipAfterAccumulate ==
    /\ drv = "hexatic"
    /\ drv_pc = "loop"
    /\ ip = 2
    /\ ~StageFails(paths[1])
    /\ StageFails(paths[2])
    /\ Len(hist) = 1
    /\ \E b \in Idx(g6A.nbins) : g6A.bins[b].sample_count = 1

\* the accumulate call gives the snapshot up: fewer than two centres, or the
\* scratch arrays cannot be allocated
AccumulateAbandons(f) ==
    /\ ~StageFails(f)
    /\ \/ ALen(DrvSnaps[f.snap].coms) < 2
       \/ drv = "hexatic" /\ f.oom = "scratch"

\* C14: every skipped snapshot and every abandoned accumulate call writes at
\* least one message before processing continues.
Claim_C14_EveryErrorLogged ==
    [][(InFrameLoop /\ (StageFails(paths[ip + 1]) \/ AccumulateAbandons(paths[ip + 1])))
         => Len(log') > Len(log)]_vars

InvalidConfig == lbond <= 0 \/ dr <= 0 \/ (use_pbc /\ (box_x <= 0 \/ box_y <= 0))

\* C15: with an invalid configuration the run reads no snapshot, writes no
\* output file, and exits with a message and a non-zero status.
Claim_C15_InvalidConfigStops ==
    (drv # "none" /\ InvalidConfig) =>
        /\ drv_pc \in {"start", "exit"}
        /\ files_read = 0
        /\ outputs = {}
        /\ drv_pc = "exit" => (status # 0 /\ Len(log) > 0)

\* the bins of an accumulator that received at least one pair
NonEmptyBins(A) == {b \in Idx(A.nbins) : A.bins[b].pair_count > 0}

\* the rows of a written table are those of the non-empty bins, one each
OneRowPerNonEmptyBin(rows, A) ==
    /\ Len(rows) = Cardinality(NonEmptyBins(A))
    /\ \A b \in NonEmptyBins(A) :
         \E i \in 1..Len(rows) : rows[i].r_center = A.bins[b].r_center

\* C16: g6accum_write, graccum_write and gtaccum_write each emit exactly one
\* data row for every bin that received a pair and none for a bin that never
\* received one.
Claim_C16_OneRowPerNonEmptyBin ==
    /\ pass = "g6" => OneRowPerNonEmptyBin(g6accum_write(g6A), g6A)
    /\ pass = "gr" => OneRowPerNonEmptyBin(graccum_write(grA), grA)
    /\ pass = "gt" => OneRowPerNonEmptyBin(gtaccum_write(gtA), gtA)

(***************************************************************************)
(* com.c: compute_cluster_coms, and wrap_pos of utils.c.  Doubles are      *)
(* modelled with two precisions: values are integers in a fine unit, every *)
(* integer of magnitude below 2 is a double, beyond that only the          *)
(* multiples of 4 are, and each arithmetic result is rounded to the        *)
(* nearest double.  Particle coordinates are multiples of 24, whose sums,  *)
(* halves and thirds are doubles, as for coordinates of ordinary size; -1  *)
(* is a coordinate of very small magnitude.                                *)
(***************************************************************************)
IsDouble(v) == Abs(v) < 2 \/ v % 4 = 0

\* n / d (d > 0) rounded to the nearest double
FlDiv(n, d) ==
    LET q == n \div d
        C == {c \in (q - 4)..(q + 5) : IsDouble(c)}
    IN  CHOOSE c \in C : \A o \in C :
            \/ Abs(n - c * d) < Abs(n - o * d)
            \/ Abs(n - c * d) = Abs(n - o * d) /\ Abs(c) <= Abs(o)

Fl(v) == FlDiv(v, 1)

\* C fmod(x, L) for L > 0: exact, with the sign of x
fmod(x, L) == IF x >= 0 THEN x % L ELSE -((-x) % L)

\* utils.c lines 75-80
wrap_pos(x, L) ==
    IF L <= 0 THEN x
    ELSE LET y == fmod(x, L)
         IN  IF y < 0 THEN Fl(y + L) ELSE y

\* a fold that adds L whatever the sign of the remainder
safe_wrap_shift(x, L) == IF L <= 0 THEN x ELSE Fl(fmod(x, L) + L)

\* com.c lines 18-20
safe_wrap(x, L) == wrap_pos(x, L)

\* com.c lines 64-79: the sums sx, sy over members k..nm of list m, and the
\* messages for the invalid indices met
RECURSIVE SumMembers(_, _, _, _, _, _, _, _, _)
SumMembers(p, m, k, ref, acc, c, pbc, bx, by) ==
    IF k > Len(m) THEN acc
    ELSE LET idx == m[k]
         IN  IF idx < 0 \/ idx >= ALen(p)
             THEN SumMembers(p, m, k + 1, ref,
                             [acc EXCEPT !.msgs = Append(@,
                                 [text |-> "invalid member index (skipped)",
                                  idx |-> idx, cluster |-> c])],
                             c, pbc, bx, by)
             ELSE LET dx0 == Fl(p[idx].x - ref.x)
                      dy0 == Fl(p[idx].y - ref.y)
                      dx  == IF pbc THEN Fl(mic_delta(dx0, bx)) ELSE dx0
                      dy  == IF pbc THEN Fl(mic_delta(dy0, by)) ELSE dy0
                  IN  SumMembers(p, m, k + 1, ref,
                                 [acc EXCEPT !.sx = Fl(@ + dx), !.sy = Fl(@ + dy)],
                                 c, pbc, bx, by)

\* com.c lines 44-87: the loop body for cluster c with member list m
ClusterCom(p, m, c, pbc, bx, by) ==
    LET nm == Len(m)
    IN  IF nm <= 0 THEN [com |-> [x |-> 0, y |-> 0], msgs |-> <<>>]
        ELSE IF m[1] < 0 \/ m[1] >= ALen(p)
        THEN [com |-> [x |-> 0, y |-> 0],
              msgs |-> <<[text |-> "invalid member index", idx |-> m[1], cluster |-> c]>>]
        ELSE LET ref == p[m[1]]
                 s   == SumMembers(p, m, 1, ref, [sx |-> 0, sy |-> 0, msgs |-> <<>>],
                                   c, pbc, bx, by)
                 cx  == Fl(ref.x + FlDiv(s.sx, nm))
                 cy  == Fl(ref.y + FlDiv(s.sy, nm))
             IN  [com |-> IF pbc THEN [x |-> safe_wrap(cx, bx), y |-> safe_wrap(cy, by)]
                                 ELSE [x |-> cx, y |-> cy],
                  msgs |-> s.msgs]

RECURSIVE ConcatMsgs(_, _)
ConcatMsgs(r, c) == IF c >= ALen(r) THEN <<>> ELSE r[c].msgs \o ConcatMsgs(r, c + 1)

\* com.c lines 22-91; cl is the array of member lists, nclusters its length
compute_cluster_coms(p, cl, pbc, bx, by) ==
    IF pbc /\ (bx <= 0 \/ by <= 0)
    THEN [rc |-> 2, coms |-> EmptyArr,
          msgs |-> <<[text |-> "invalid box dims for PBC", idx |-> 0, cluster |-> 0]>>]
    ELSE LET r == [c \in Idx(ALen(cl)) |-> ClusterCom(p, cl[c], c, pbc, bx, by)]
         IN  [rc |-> 0, coms |-> [c \in Idx(ALen(cl)) |-> r[c].com],
              msgs |-> ConcatMsgs(r, 0)]

(***************************************************************************)
(* compute_cluster_coms as a call: any of a few particle arrays, any array *)
(* of up to MaxCmClusters member lists (empty lists and indices outside    *)
(* [0,N) included), box 96 x 96.                                           *)
(***************************************************************************)
MaxCmClusters == 2

CmPoints ==
    <<[x |-> -1, y |-> 0], [x |-> 24, y |-> 48], [x |-> 72, y |-> 0], [x |-> 120, y |-> 24],
      \* three points a third of the box apart
      [x |-> 0, y |-> 0], [x |-> 32, y |-> 0], [x |-> 64, y |-> 0]>>

CmPosLists == {<<1>>, <<2>>, <<4>>, <<1, 3>>, <<2, 3>>, <<3, 4>>, <<5, 6, 7>>}

CmPosArray(l) == [i \in Idx(Len(l)) |-> CmPoints[l[i + 1]]]

MemberLists ==
    {<<>>, <<0>>, <<1>>, <<0, 1>>, <<1, 0>>, <<5>>, <<5, 0, 1>>, <<0, 5, 1>>, <<0, 1, -1>>,
     <<0, 1, 2>>}

ClusterArrays == UNION {[Idx(n) -> MemberLists] : n \in 0..MaxCmClusters}

CmBoxes == {<<FALSE, 96, 96>>, <<TRUE, 96, 96>>, <<TRUE, 96, 0>>}

InitCom ==
    /\ ClIdle
    /\ NbIdle
    /\ AccIdle
    /\ PkIdle
    /\ DrvIdle
    /\ \E b \in CmBoxes : use_pbc = b[1] /\ box_x = b[2] /\ box_y = b[3]
    /\ cm_pos \in {CmPosArray(l) : l \in CmPosLists}
    /\ cm_clusters \in ClusterArrays
    /\ cm_pc = "call"
    /\ cm_ret = [rc |-> 0, coms |-> EmptyArr, msgs |-> <<>>]

ComputeComs ==
    /\ cm_pc = "call"
    /\ cm_ret' = compute_cluster_coms(cm_pos, cm_clusters, use_pbc, box_x, box_y)
    /\ cm_pc' = "done"
    /\ UNCHANGED <<runVars, clVars, nbVars, accVars, pkVars, drVars, cm_pos, cm_clusters>>

NextCom == ComputeComs

SpecCom == InitCom /\ [][NextCom]_vars

(***************************************************************************)
(* Centre-of-mass claims                                                   *)
(***************************************************************************)
ComDone == cm_pc = "done" /\ cm_ret.rc = 0

ValidIdx(i) == i >= 0 /\ i < ALen(cm_pos)

InCell(pt) == 0 <= pt.x /\ pt.x < box_x /\ 0 <= pt.y /\ pt.y < box_y

SingleMember(c) == Len(cm_clusters[c]) = 1 /\ ValidIdx(cm_clusters[c][1])

Claim_C18_ComsInPrimaryCell ==
    (ComDone /\ use_pbc) =>
        /\ DOMAIN cm_ret.coms = DOMAIN cm_clusters
        /\ \A c \in DOMAIN cm_ret.coms : InCell(cm_ret.coms[c])

HasInvalid(m) == \E k \in 1..Len(m) : ~ValidIdx(m[k])
ValidOnly(m) == SelectSeq(m, ValidIdx)

\* C19: an index outside [0,N) is reported and skipped, the call succeeds,
\* and the cluster's COM is the average over its valid members only - the
\* COM of the list without the invalid entries - wherever the invalid index
\* stands in the list.
Claim_C19_InvalidMemberSkipped ==
    ComDone =>
        \A c \in DOMAIN cm_clusters :
            HasInvalid(cm_clusters[c]) =>
                /\ \E i \in 1..Len(cm_ret.msgs) : cm_ret.msgs[i].cluster = c
                /\ cm_ret.coms[c] =
                       ClusterCom(cm_pos, ValidOnly(cm_clusters[c]), c,
                                  use_pbc, box_x, box_y).com

\* C20: an empty cluster gets the origin as its COM and the condition is
\* flagged, by a message naming the cluster or by a non-success return.
Claim_C20_EmptyClusterFlagged ==
    (cm_pc = "done" /\ ~(use_pbc /\ (box_x <= 0 \/ box_y <= 0))) =>
        \A c \in DOMAIN cm_clusters :
            Len(cm_clusters[c]) = 0 =>
                /\ cm_ret.coms[c] = [x |-> 0, y |-> 0]
                /\ \/ cm_ret.rc # 0
                   \/ \E i \in 1..Len(cm_ret.msgs) : cm_ret.msgs[i].cluster = c

(***************************************************************************)
(* Clustering: empty input against rejected input                          *)
(***************************************************************************)
\* what the caller receives: the returned pointer and *out_nclusters
Received(R) == <<R.ptr, R.nclusters>>

\* the results of calls rejected for a non-positive periodic box
RejectedResults ==
    {Received(find_clusters_from_vec2array(p, lbond, TRUE, b[1], b[2])) :
        p \in {q \in PosArrays : ALen(q) >= 1},
        b \in {c \in Boxes : c[1] <= 0 \/ c[2] <= 0}}

\* C21: clustering an empty point set gives zero clusters as a non-error
\* outcome: what the caller receives for N = 0 differs from what it
\* receives for a rejected input, for which no clustering is performed.
Claim_C21_EmptyIsNotFailure ==
    (Returned /\ N_pos = 0 /\ (use_pbc => (box_x > 0 /\ box_y > 0))) =>
        /\ cluster_id.nclusters = 0
        /\ Received(cluster_id) \notin RejectedResults

(***************************************************************************)
(* The stages with periodicity disabled: each stage on its own inputs,     *)
(* use_pbc false, and box lengths of either sign.                          *)
(***************************************************************************)
BoxFreeBoxes == {<<4, 4>>, <<0, -4>>}

\* the second choice of box lengths a call is compared with
OtherBoxes == {<<4, 4>>, <<-4, 0>>, <<2, 6>>}

ClStart ==
    /\ pos \in PosArrays
    /\ lbond \in Lbonds
    /\ cl_pc = "call"
    /\ cluster_id = NullIds
    /\ nclusters = 0
    /\ clusters = NullClusters
    /\ uf_st = uf_init(0)
    /\ uf_op = NoUfCall

NbStart ==
    /\ coms \in ComArrays
    /\ nb_pc = "call"
    /\ tri_nedges = 0
    /\ tri_e = 0
    /\ neighbors = EmptyArr
    /\ nb_ret = NullNeighbors
    /\ out_M = 0

AccStart ==
    /\ pass \in {"g6", "gr", "gt"}
    /\ dr \in BinWidths
    /\ a_lattice \in (IF pass = "gt" THEN Spacings ELSE {0})
    /\ g6A = g6accum_create(dr)
    /\ grA = graccum_create(dr)
    /\ gtA = gtaccum_create(dr)
    /\ hist = <<>>

CmStart ==
    /\ cm_pos \in {CmPosArray(l) : l \in CmPosLists}
    /\ cm_clusters \in ClusterArrays
    /\ cm_pc = "call"
    /\ cm_ret = [rc |-> 0, coms |-> EmptyArr, msgs |-> <<>>]

InitBoxFree ==
    /\ use_pbc = FALSE
    /\ \E b \in BoxFreeBoxes : box_x = b[1] /\ box_y = b[2]
    /\ PkIdle
    /\ DrvIdle
    /\ \/ ClStart /\ NbIdle /\ AccIdle /\ CmIdle
       \/ ClIdle /\ NbStart /\ AccIdle /\ CmIdle
       \/ ClIdle /\ NbIdle /\ AccStart /\ CmIdle
       \/ ClIdle /\ NbIdle /\ AccIdle /\ CmStart

NextBoxFree ==
    \/ FindClusters
    \/ MakeClusters
    \/ ComputeComs
    \/ TriangulateEnter
    \/ ScanEdge
    \/ TriangulateReturn
    \/ G6Accumulate
    \/ GrAccumulate
    \/ GtAccumulate

SpecBoxFree == InitBoxFree /\ [][NextBoxFree]_vars

\* a step of one stage gives what the same call gives with box lengths bx, by
SameWithBox(bx, by) ==
    /\ (cl_pc = "call" /\ cl_pc' # "call") =>
          cluster_id' = find_clusters_from_vec2array(pos, lbond, FALSE, bx, by)
    /\ (cm_pc = "call" /\ cm_pc' = "done") =>
          cm_ret' = compute_cluster_coms(cm_pos, cm_clusters, FALSE, bx, by)
    /\ (nb_pc = "call" /\ nb_pc' # "call") =>
          nb_ret'.err # "triangulate: invalid box dims"
    /\ (nb_pc = "scan" /\ tri_e' = tri_e + 1) =>
          \E p1, p2 \in Idx(ALen(coms)) :
              /\ p1 # p2
              /\ neighbors' = ScanOneEdge(neighbors, coms, p1, p2, FALSE, bx, by)
    /\ (hist' # hist) =>
          LET s == hist'[Len(hist')]
          IN  /\ g6A' = IF pass = "g6"
                        THEN g6accum_accumulate(g6A, s.coms, s.psi6, FALSE, bx, by)
                        ELSE g6A
              /\ grA' = IF pass = "gr"
                        THEN graccum_accumulate(grA, s.coms, FALSE, bx, by)
                        ELSE grA
              /\ gtA' = IF pass = "gt"
                        THEN gtaccum_accumulate(gtA, s.coms,
                                 compute_global_orientation_angle(s.psi6),
                                 a_lattice, FALSE, bx, by)
                        ELSE gtA

\* the largest raw squared pair distance of a snapshot's centres
RawMax2(c) ==
    SetMax({0} \cup {(c[p[2]].x - c[p[1]].x) * (c[p[2]].x - c[p[1]].x)
                     + (c[p[2]].y - c[p[1]].y) * (c[p[2]].y - c[p[1]].y) :
                        p \in Pairs(ALen(c))})

\* C22: with periodicity disabled the box lengths are ignored: every step of
\* clustering, COM computation, the neighbor builder's edge handling and the
\* three accumulate functions gives the result the same call gives with any
\* other box lengths (zero and negative included), and the bins reach the
\* largest raw Euclidean pair distance.
Thm_C22_BoxIgnoredWithoutPbc ==
    [][~use_pbc =>
          /\ \A b \in OtherBoxes : SameWithBox(b[1], b[2])
          /\ (hist' # hist /\ pass = "gr" /\ ALen(hist'[Len(hist')].coms) >= 2) =>
                grA'.nbins > BinOf(RawMax2(hist'[Len(hist')].coms), dr)]_vars

Wit_C22_NonPositiveBox ==
    /\ ~use_pbc
    /\ box_x <= 0
    /\ box_y < 0
    /\ pass = "gr"
    /\ Len(hist) = 2
    /\ grA.nbins >= 3
    /\ grA.nframes = 2

(***************************************************************************)
(* Bin growth                                                              *)
(***************************************************************************)
\* the bin indices ensure_bins is asked for
AskedBins == (-1)..(MaxBins + 1)

\* E is A grown to hold bin bmax: nothing lost, old bins as they were, new
\* bins equal to the empty bin zero(b)
GrownFrom(A, E, zero(_)) ==
    /\ E.nbins >= A.nbins
    /\ E.dr = A.dr
    /\ DOMAIN E.bins = Idx(E.nbins)
    /\ \A b \in Idx(A.nbins) : E.bins[b] = A.bins[b]
    /\ \A b \in Idx(E.nbins) \ Idx(A.nbins) : E.bins[b] = zero(b)

CentredBins(A) ==
    /\ DOMAIN A.bins = Idx(A.nbins)
    /\ \A b \in Idx(A.nbins) : A.bins[b].r_center = <<2 * b + 1, A.dr>>

ZeroG6(b) ==
    [r_center |-> <<2 * b + 1, dr>>, re_sum |-> RZero, im_sum |-> RZero,
     pair_count |-> 0, sample_count |-> 0]
ZeroGr(b) ==
    [r_center |-> <<2 * b + 1, dr>>, shell_area_sum |-> 0,
     ideal_pairs_sum |-> RZero, pair_count |-> 0]
ZeroGt(b) == [r_center |-> <<2 * b + 1, dr>>, ct_sum |-> 0, pair_count |-> 0]

BinsKeptOnGrowth ==
    \A bmax \in AskedBins :
        /\ GrownFrom(g6A, g6accum_ensure_bins(g6A, bmax), ZeroG6)
        /\ GrownFrom(grA, gr_ensure_bins(grA, bmax), ZeroGr)
        /\ GrownFrom(gtA, gt_ensure_bins(gtA, bmax), ZeroGt)
        /\ bmax >= 0 =>
              /\ g6accum_ensure_bins(g6A, bmax).nbins = SetMax({g6A.nbins, bmax + 1})
              /\ gr_ensure_bins(grA, bmax).nbins = SetMax({grA.nbins, bmax + 1})
              /\ gt_ensure_bins(gtA, bmax).nbins = SetMax({gtA.nbins, bmax + 1})

\* C23: for each accumulator and any sequence of accumulate calls the number
\* of bins never decreases, bin b has centre (b + 0.5) * dr, and growing the
\* bin array keeps the sums and counts of the existing bins while the new
\* bins start at zero.
Thm_C23_BinsGrowOnly ==
    /\ [](CentredBins(g6A) /\ CentredBins(grA) /\ CentredBins(gtA) /\ BinsKeptOnGrowth)
    /\ [][/\ g6A'.nbins >= g6A.nbins
          /\ grA'.nbins >= grA.nbins
          /\ gtA'.nbins >= gtA.nbins]_vars

\* the second call grew a g(r) bin array that already held counts
Wit_C23_GrownAfterCounts ==
    /\ pass = "gr"
    /\ Len(hist) = 2
    /\ LET A1 == graccum_accumulate(graccum_create(dr), hist[1].coms, use_pbc, box_x, box_y)
       IN  /\ A1.nbins >= 1
           /\ A1.nbins < grA.nbins
           /\ \E b \in Idx(A1.nbins) : A1.bins[b].pair_count > 0

(***************************************************************************)
(* Neighbor builder: which edges of the tiled triangulation are accepted   *)
(***************************************************************************)
NoNeighbors == [i \in Idx(M_coms) |-> <<>>]

\* the edge scan, given edge (p1, p2) alone, records a neighbor pair
Accepts(p1, p2) ==
    ScanOneEdge(NoNeighbors, coms, p1, p2, use_pbc, box_x, box_y) # NoNeighbors

TiledDelta(p1, p2) ==
    <<pointlist(coms, p2, box_x, box_y).x - pointlist(coms, p1, box_x, box_y).x,
      pointlist(coms, p2, box_x, box_y).y - pointlist(coms, p1, box_x, box_y).y>>

\* the three conditions of the claim for an edge of the tiled point set
Acceptable(p1, p2) ==
    LET o1 == p1 % M_coms
        o2 == p2 % M_coms
        e  == TiledDelta(p1, p2)
    IN  /\ p1 < M_coms \/ p2 < M_coms
        /\ o1 # o2
        /\ e[1] = mic_delta(coms[o2].x - coms[o1].x, box_x)
        /\ e[2] = mic_delta(coms[o2].y - coms[o1].y, box_y)
        \* the nearest copy: no other image of o2 is closer to o1 on either axis
        /\ 2 * Abs(e[1]) <= box_x
        /\ 2 * Abs(e[2]) <= box_y

TiledEdges ==
    {p \in Idx(total_points(M_coms, TRUE)) \X Idx(total_points(M_coms, TRUE)) :
        p[1] # p[2]}

\* C24: with periodicity enabled an edge of the 9*M tiled points is accepted
\* only if an endpoint is in the central copy, the endpoints map to two
\* different originals, and the tiled displacement is the minimum-image
\* displacement of the originals; so every neighbor pair in the graph comes
\* from such an edge, never from a non-nearest copy or an image-image edge.
Thm_C24_OnlyNearestImageEdges ==
    (use_pbc /\ nb_pc \in {"scan", "done"} /\ tri_nedges > 0) =>
        /\ tri_e = 0 =>
              \A p \in TiledEdges : Accepts(p[1], p[2]) => Acceptable(p[1], p[2])
        /\ \A i \in Idx(M_coms) : \A k \in 1..Len(neighbors[i]) :
              \E a, b \in 0..8 :
                  LET p1 == i + a * M_coms
                      p2 == neighbors[i][k] + b * M_coms
                  IN  Acceptable(p1, p2) \/ Acceptable(p2, p1)

\* a periodic scan in which a pair was recorded although Triangle may also
\* have linked a central point to a farther copy of the same neighbor
Wit_C24_FartherCopyRejected ==
    /\ Succeeded
    /\ use_pbc
    /\ \E i \in Idx(M_coms) : Len(nb_ret.data[i]) >= 1
    /\ \E p \in TiledEdges :
          /\ p[1] < M_coms
          /\ p[1] % M_coms # p[2] % M_coms
          /\ ~Accepts(p[1], p[2])
    /\ \E p \in TiledEdges : p[1] >= M_coms /\ p[2] < M_coms /\ Accepts(p[1], p[2])

(***************************************************************************)
(* No pair is truncated                                                    *)
(***************************************************************************)
TotalPairs(A) == SumOver([b \in Idx(A.nbins) |-> A.bins[b].pair_count], Idx(A.nbins))

AllPairs(M) == (M * (M - 1)) \div 2

\* the snapshot handed to the accumulate call of this step
Handed == hist'[Len(hist')]

\* the call is not rejected: two centres or more, a positive box under
\* periodicity and, for gT, a positive lattice spacing
Accepted(s) == Took(s) /\ (pass = "gt" => a_lattice > 0)

\* the pairs of an accepted snapshot that the accumulator of this pass bins
BinnedPairs(s) ==
    {p \in Pairs(ALen(s.coms)) :
        (pass = "g6" /\ use_pbc) => WithinHalfBox(SnapDist2(s, p))}

PairsAdded ==
    CASE pass = "g6" -> TotalPairs(g6A') - TotalPairs(g6A)
      [] pass = "gr" -> TotalPairs(grA') - TotalPairs(grA)
      [] pass = "gt" -> TotalPairs(gtA') - TotalPairs(gtA)

BinsAfter ==
    CASE pass = "g6" -> g6A'.nbins
      [] pass = "gr" -> grA'.nbins
      [] pass = "gt" -> gtA'.nbins

\* C25 as stated: every g(r) or gT accumulate call on M >= 2 centres adds
\* exactly M*(M-1)/2 to the total pair count.
Orig_C25_EveryCallAddsAllPairs ==
    [][(hist' # hist /\ pass \in {"gr", "gt"} /\ ALen(Handed.coms) >= 2) =>
          PairsAdded = AllPairs(ALen(Handed.coms))]_vars

\* C25: in every accumulate call that is not rejected the bin array is
\* extended before binning so that no pair is truncated: every pair (for g6
\* under periodicity every pair within the half-box cutoff) has bin index
\* floor(r/dr) < nbins, every such pair is counted, and a g(r) or gT call on
\* M >= 2 centres adds exactly M*(M-1)/2 to the total pair count.
Thm_C25_NoPairTruncated ==
    [][(hist' # hist /\ Accepted(Handed)) =>
          /\ \A p \in BinnedPairs(Handed) : RadialBin(SnapDist2(Handed, p)) < BinsAfter
          /\ PairsAdded = Cardinality(BinnedPairs(Handed))
          /\ pass \in {"gr", "gt"} => PairsAdded = AllPairs(ALen(Handed.coms))]_vars

\* two accepted gT calls on three centres each, all six pairs counted and
\* the farthest bin in use
Wit_C25_AllPairsCounted ==
    /\ pass = "gt"
    /\ a_lattice > 0
    /\ use_pbc
    /\ Len(hist) = 2
    /\ ALen(hist[1].coms) = 3
    /\ ALen(hist[2].coms) = 3
    /\ TotalPairs(gtA) = 6
    /\ gtA.nbins >= 3
    /\ gtA.bins[gtA.nbins - 1].pair_count >= 1

(***************************************************************************)
(* Cluster id numbering                                                    *)
(***************************************************************************)
IdsBefore(i) == {Id(j) : j \in Idx(i)}

\* C26: cluster ids are numbered in order of first occurrence in particle
\* order: particle 0 has id 0, the id of particle i > 0 is at most one more
\* than the largest id among particles 0..i-1, and a particle that opens a
\* cluster gets the next unused integer; the ids are a function of the
\* input order.
Thm_C26_FirstOccurrenceOrder ==
    cluster_id.ptr =>
        /\ Id(0) = 0
        /\ \A i \in Idx(N_pos) \ {0} : Id(i) <= 1 + SetMax(IdsBefore(i))
        /\ \A i \in Idx(N_pos) :
              Id(i) \notin IdsBefore(i) => Id(i) = Cardinality(IdsBefore(i))
        /\ cluster_id = find_clusters_from_vec2array(pos, lbond, use_pbc, box_x, box_y)

\* the last particle rejoins the first cluster after a second one was opened
Wit_C26_SecondClusterBetween ==
    /\ cl_pc = "done"
    /\ N_pos = 3
    /\ Id(0) = 0
    /\ Id(1) = 1
    /\ Id(2) = 0

(***************************************************************************)
(* The union-find structure under arbitrary calls (clusters.c 22-74): a    *)
(* structure of n elements, then any sequence of uf_union and uf_root.     *)
(***************************************************************************)
MaxUf == 4

InitUf ==
    /\ use_pbc = FALSE
    /\ box_x = 0
    /\ box_y = 0
    /\ NbIdle
    /\ PkIdle
    /\ DrvIdle
    /\ CmIdle
    /\ AccIdle
    /\ pos = EmptyArr
    /\ lbond = 0
    /\ cl_pc = "uf"
    /\ cluster_id = NullIds
    /\ nclusters = 0
    /\ clusters = NullClusters
    /\ \E n \in 1..MaxUf : uf_st = uf_init(n)
    /\ uf_op = NoUfCall

UfUnion ==
    /\ cl_pc = "uf"
    /\ \E a, b \in DOMAIN uf_st.parent :
          /\ uf_st' = uf_union(uf_st, a, b)
          /\ uf_op' = [op |-> "union", a |-> a, b |-> b, r |-> 0]
    /\ UNCHANGED <<runVars, pkVars, drVars, cmVars, nbVars, accVars,
                   pos, lbond, cl_pc, cluster_id, nclusters, clusters>>

UfRoot ==
    /\ cl_pc = "uf"
    /\ \E i \in DOMAIN uf_st.parent :
          /\ uf_st' = uf_root(uf_st, i).uf
          /\ uf_op' = [op |-> "root", a |-> i, b |-> i, r |-> uf_root(uf_st, i).r]
    /\ UNCHANGED <<runVars, pkVars, drVars, cmVars, nbVars, accVars,
                   pos, lbond, cl_pc, cluster_id, nclusters, clusters>>

NextUf == UfUnion \/ UfRoot

SpecUf == InitUf /\ [][NextUf]_vars

\* the element reached from i after k parent links
RECURSIVE Follow(_, _, _)
Follow(parent, i, k) == IF k = 0 THEN i ELSE Follow(parent, parent[i], k - 1)

UfN(u) == Cardinality(DOMAIN u.parent)

\* where the parent links from i end, if they end within n steps
TopOf(u, i) == Follow(u.parent, i, UfN(u))

Forest(u) ==
    /\ DOMAIN u.parent = Idx(UfN(u))
    /\ \A i \in DOMAIN u.parent :
          /\ u.parent[i] \in DOMAIN u.parent
          /\ u.parent[TopOf(u, i)] = TopOf(u, i)

SameSet(u, x, y) == TopOf(u, x) = TopOf(u, y)

\* C27: after any sequence of uf_union and uf_root calls the parent array
\* is a forest (the parent links from any element end at a self-parented
\* root within n steps); uf_root returns that root and its path compression
\* leaves the sets as they were; uf_union(a, b) merges exactly the sets of a
\* and b and changes no other set.
Thm_C27_UnionFindForest ==
    /\ [](cl_pc = "uf" => Forest(uf_st))
    /\ [][cl_pc = "uf" =>
            /\ uf_op'.op = "root" =>
                  /\ uf_op'.r = TopOf(uf_st, uf_op'.a)
                  /\ uf_st'.parent[uf_op'.r] = uf_op'.r
                  /\ uf_st'.parent[uf_op'.a] = uf_op'.r
                  /\ uf_st'.rank = uf_st.rank
                  /\ \A x, y \in DOMAIN uf_st.parent :
                        SameSet(uf_st', x, y) <=> SameSet(uf_st, x, y)
            /\ uf_op'.op = "union" =>
                  \A x, y \in DOMAIN uf_st.parent :
                      SameSet(uf_st', x, y) <=>
                          \/ SameSet(uf_st, x, y)
                          \/ /\ SameSet(uf_st, x, uf_op'.a) \/ SameSet(uf_st, x, uf_op'.b)
                             /\ SameSet(uf_st, y, uf_op'.a) \/ SameSet(uf_st, y, uf_op'.b)]_vars

\* a tree of depth two (rank 2) flattened by a uf_root call on its deepest
\* element
Wit_C27_PathCompressed ==
    /\ cl_pc = "uf"
    /\ uf_op.op = "root"
    /\ uf_op.a # uf_op.r
    /\ \E i \in DOMAIN uf_st.parent : uf_st.rank[i] = 2
    /\ \A j \in DOMAIN uf_st.parent : uf_st.parent[j] = uf_op.r

(***************************************************************************)
(* Centre of mass: the choice of the reference member                      *)
(***************************************************************************)
\* bond cutoffs the clustering stage may have run with
CmLbonds == {32, 48}

\* member list m holds the members of a cluster that the clustering stage
\* produces from cm_pos with one of the cutoffs
ProducedByClustering(m) ==
    \E lb \in CmLbonds :
        LET R  == find_clusters_from_vec2array(cm_pos, lb, TRUE, box_x, box_y)
            CL == make_clusters_from_ids(R, ALen(cm_pos), R.nclusters)
        IN  /\ R.ptr
            /\ CL.ptr
            /\ \E k \in DOMAIN CL.data : CL.data[k] = m

\* the orderings of member list m
Reorderings(m) ==
    {[i \in 1..Len(m) |-> m[f[i - 1] + 1]] : f \in Perms(Len(m))}

\* C28: with periodicity enabled the COM of a cluster does not depend on
\* which member is the reference: for a cluster the clustering stage
\* produces, every ordering of its member list gives the same COM.
Claim_C28_ReferenceIndependent ==
    (ComDone /\ use_pbc) =>
        \A c \in DOMAIN cm_clusters :
            ProducedByClustering(cm_clusters[c]) =>
                \A m \in Reorderings(cm_clusters[c]) :
                    ClusterCom(cm_pos, m, c, TRUE, box_x, box_y).com = cm_ret.coms[c]

(***************************************************************************)
(* Translational driver: the order of the two passes                       *)
(***************************************************************************)
Translational == drv = "translational"

GtCreated == gtA.dr > 0

\* the spacing the second pass must run with: the override if one was
\* given, otherwise the first-peak estimate of the finished g(r)
SpacingAvailable ==
    IF a_override.given THEN 2 * a_override.val
    ELSE graccum_estimate_first_peak_a(grA)[1] * graccum_estimate_first_peak_a(grA)[2]

\* C29: the gT pass begins only after the g(r) pass over all selected
\* snapshots has finished, the g(r) table is written and a strictly
\* positive lattice spacing is available (the override if given, else the
\* first-peak estimate); if g(r) cannot be written or the spacing is not
\* positive the run ends with a non-zero status, no gT accumulator and no gT
\* file; the g(r) accumulator is used only while it exists.
Thm_C29_GtAfterGr ==
    /\ []((Translational /\ drv_pc = "pass2") =>
            /\ "gr_avg" \in outputs
            /\ a_lattice > 0
            /\ a_lattice = SpacingAvailable
            /\ GtCreated
            /\ ~Agr_live)
    /\ []((Translational /\ (GtCreated \/ "gt_avg" \in outputs)) =>
            ("gr_avg" \in outputs /\ a_lattice > 0 /\ ~Agr_live))
    /\ []((Translational /\ drv_pc = "exit"
            /\ ("gr_avg" \notin outputs \/ SpacingAvailable <= 0)) =>
            (status # 0 /\ ~GtCreated /\ "gt_avg" \notin outputs))
    /\ []((Translational /\ drv_pc = "pass1") => Agr_live)
    /\ [][Translational =>
            /\ (drv_pc # "pass2" /\ drv_pc' = "pass2") =>
                  (drv_pc = "pass1" /\ ip = Len(paths) /\ ip' = 0)
            /\ (grA' # grA \/ a_lattice' # a_lattice) =>
                  (Agr_live \/ (drv_pc = "start" /\ Agr_live'))
            /\ (drv_pc # "start" /\ ~Agr_live) => ~Agr_live'
            /\ gtA' # gtA => drv_pc' = "pass2"]_vars

\* a run without override that estimated the spacing, ran the gT pass over
\* an accepted snapshot and wrote both files
Wit_C29_BothFilesWritten ==
    /\ Translational
    /\ drv_pc = "exit"
    /\ status = 0
    /\ outputs = {"gr_avg", "gt_avg"}
    /\ ~a_override.given
    /\ a_lattice > 0
    /\ gtA.nbins > 0

(***************************************************************************)
(* Rejected accumulate calls                                               *)
(***************************************************************************)
\* the call of this step is one the accumulate function rejects
Rejected(s) ==
    \/ ALen(s.coms) < 2
    \/ pass \in {"gr", "gt"} /\ use_pbc /\ (box_x <= 0 \/ box_y <= 0)
    \/ pass = "gt" /\ a_lattice <= 0

\* C30: an accumulate call that rejects its input - fewer than 2 centres;
\* for g(r) and gT a non-positive box under periodicity; for gT a lattice
\* spacing <= 0 - leaves the accumulator as it was: the number of bins,
\* every bin's sums and counts and the g(r) frame counter.
Thm_C30_RejectedCallChangesNothing ==
    [][(hist' # hist /\ Rejected(Handed)) =>
          (g6A' = g6A /\ grA' = grA /\ gtA' = gtA)]_vars

\* a rejected call on an accumulator that already holds a snapshot
Wit_C30_RejectedAfterAccepted ==
    /\ pass = "gr"
    /\ Len(hist) = 2
    /\ ALen(hist[1].coms) >= 2
    /\ ALen(hist[2].coms) < 2
    /\ grA.nframes = 1
    /\ grA.nbins >= 1

=============================================================================
